---- MODULE Spec2Model ----
(***************************************************************************)
(* Model of srt2fcpx: the SRT block parser (parseSrt), the text sanitizer   *)
(* (decodeHtmlEntities, stripHtmlTags), the timeline codec                  *)
(* (millisecondsToFraction) and the FCPXML emitter (buildFcpxml,            *)
(* convertSrtToFcpxml).                                                     *)
(*                                                                         *)
(* A JavaScript string is a sequence of characters; a character is a        *)
(* one-letter TLA+ string, and a code point outside printable ASCII is the  *)
(* string "U+<n>" (so "U+169" is the copyright sign).                       *)
(***************************************************************************)
EXTENDS Integers, Sequences, FiniteSets, TLC

VARIABLES
  pc,        \* position of the running call
  text,      \* argument of decodeHtmlEntities / stripHtmlTags
  out,       \* value returned by decodeHtmlEntities / stripHtmlTags
  calls,     \* number of stripHtmlTags calls made on this text
  ms,        \* millisecondsToFraction: ms
  frameRate, \* millisecondsToFraction: frameRate
  fraction,  \* millisecondsToFraction: returned frame count and rate
  document,  \* the subtitle file: its line ending and its blocks of lines
  source,    \* parseSrt: source
  blocks,    \* parseSrt: blocks not yet visited by the for loop
  cues,      \* parseSrt: cues
  errors,    \* parseSrt: errors
  result,    \* convertSrtToFcpxml / buildFcpxml: outcome
  cueList,   \* buildFcpxml: cues
  titles,    \* buildFcpxml: titles built so far by cues.map
  hex,       \* hexToFcpxmlColor: hex
  color,     \* hexToFcpxmlColor: returned color vector
  options,   \* buildFcpxml: options
  colors,    \* buildFcpxml: textColor, backgroundColor, strokeColor
  escapedTitle, \* buildFcpxml: escapedTitle
  fcpxml,    \* buildFcpxml: the values put into the returned document;
             \* processCliCommand: fcpxml
  templates, \* buildFcpxmlFromTemplate: baseTemplate and titleTemplate
  argv,      \* the options the user gave on the command line
  configFile,    \* mergeConfig: configFile
  mergedOptions, \* mergeConfig: mergedOptions
  keys,      \* mergeConfig: entries of defaults the for loop has not visited
  quietMode, \* logger: quietMode
  console,   \* what console.log, console.warn and console.error have put out
  loggerCalls, \* the calls of setQuiet and of the logger made so far, in order
  command,   \* processCliCommand: input and options
  files,     \* the file system: the paths that exist and what they hold
  cliResult  \* processCliCommand: returned CliResult

vars == <<pc, text, out, calls, ms, frameRate, fraction,
          document, source, blocks, cues, errors, result, cueList, titles,
          hex, color, options, colors, escapedTitle, fcpxml, templates,
          argv, configFile, mergedOptions, keys, quietMode, console, loggerCalls,
          command, files, cliResult>>

sanitizerVars == <<text, out, calls>>
codecVars == <<ms, frameRate, fraction>>
parserVars == <<document, source, blocks, cues, errors>>
emitterVars == <<cueList, titles>>
colorVars == <<hex, color>>
builderVars == <<options, colors, escapedTitle, fcpxml, templates>>
configVars == <<argv, configFile, mergedOptions, keys>>
loggerVars == <<quietMode, console, loggerCalls>>
commandVars == <<command, files, cliResult>>
cliVars == <<configVars, loggerVars, commandVars>>

----------------------------------------------------------------------------
(* Characters and strings *)

Upper == <<"A","B","C","D","E","F","G","H","I","J","K","L","M",
           "N","O","P","Q","R","S","T","U","V","W","X","Y","Z">>
Lower == <<"a","b","c","d","e","f","g","h","i","j","k","l","m",
           "n","o","p","q","r","s","t","u","v","w","x","y","z">>
Digits == <<"0","1","2","3","4","5","6","7","8","9">>
HexDigits == <<"0","1","2","3","4","5","6","7","8","9","a","b","c","d","e","f">>

\* Printable ASCII, code points 32..126 in order
Ascii == <<" ","!","\"","#","$","%","&","'","(",")","*","+",",","-",".","/",
           "0","1","2","3","4","5","6","7","8","9",":",";","<","=",">","?",
           "@","A","B","C","D","E","F","G","H","I","J","K","L","M","N","O",
           "P","Q","R","S","T","U","V","W","X","Y","Z","[","\\","]","^","_",
           "U+96","a","b","c","d","e","f","g","h","i","j","k","l","m","n","o",
           "p","q","r","s","t","u","v","w","x","y","z","{","|","}","~">>

IndexIn(c, table) == CHOOSE k \in 1..Len(table) : table[k] = c
IsIn(c, table) == \E k \in 1..Len(table) : table[k] = c

ToLower(c) == IF IsIn(c, Upper) THEN Lower[IndexIn(c, Upper)] ELSE c

IsDigit(c) == IsIn(c, Digits)                       \* \d
IsHexDigit(c) == IsIn(ToLower(c), HexDigits)        \* [0-9a-f] with the i flag
IsWordChar(c) == IsIn(c, Upper) \/ IsIn(c, Lower) \/ IsDigit(c) \/ c = "_"  \* \w
IsSpace(c) == c \in {" ", "\t", "\n", "\r", "\f", "U+11", "U+160"}          \* \s

\* pat occurs in s at position i (1-based)
MatchAt(s, i, pat) ==
  /\ i >= 1
  /\ i + Len(pat) - 1 <= Len(s)
  /\ \A k \in 1..Len(pat) : s[i + k - 1] = pat[k]

\* the same with the regular expression's i flag
MatchAtCI(s, i, pat) ==
  /\ i >= 1
  /\ i + Len(pat) - 1 <= Len(s)
  /\ \A k \in 1..Len(pat) : ToLower(s[i + k - 1]) = ToLower(pat[k])

Contains(s, pat) == \E i \in 1..Len(s) : MatchAt(s, i, pat)
ContainsCI(s, pat) == \E i \in 1..Len(s) : MatchAtCI(s, i, pat)

\* number of characters from position i on that satisfy the test row ok
\* (a greedy * or + over a character class)
RunLen(s, i, ok) ==
  IF i < 1 \/ i > Len(s) THEN 0
  ELSE (CHOOSE j \in i..(Len(s) + 1) :
          (j > Len(s) \/ ~ok[j]) /\ \A k \in i..(j - 1) : ok[k]) - i

\* String.prototype.replace with a global regular expression: m[i] is the
\* length of the match starting at i (0 for none), r[i] its replacement;
\* the scan resumes after each match and never looks at replaced text.
\* The text up to the leftmost match at or after i is copied, the match is
\* replaced, and the scan goes on behind it.
RECURSIVE ReplaceFrom(_, _, _, _)
ReplaceFrom(s, m, r, i) ==
  IF i > Len(s) THEN <<>>
  ELSE IF \A j \in i..Len(s) : m[j] = 0 THEN SubSeq(s, i, Len(s))
  ELSE LET j == CHOOSE j \in i..Len(s) : m[j] > 0 /\ \A k \in i..(j - 1) : m[k] = 0
       IN SubSeq(s, i, j - 1) \o r[j] \o ReplaceFrom(s, m, r, j + m[j])

ReplaceAll(s, m, r) == ReplaceFrom(s, m \o <<>>, r, 1)

\* s.replace(/c/g, r) for one character c
ReplaceChar(s, c, r) ==
  ReplaceAll(s, [i \in 1..Len(s) |-> IF s[i] = c THEN 1 ELSE 0],
                [i \in 1..Len(s) |-> r])

\* s.replace(regexp, '')
Remove(s, m) == ReplaceAll(s, m, [i \in 1..Len(s) |-> <<>>])

\* Number.prototype.toString: digits of n >= 0 in the given radix
RECURSIVE ToDigits(_, _)
ToDigits(n, radix) ==
  IF n < radix THEN <<HexDigits[n + 1]>>
  ELSE Append(ToDigits(n \div radix, radix), HexDigits[(n % radix) + 1])

\* the element of a one-element set.  In Only({F(x) : x \in {e}}) the value
\* of e is computed before F starts, so a chain of passes is evaluated one
\* pass after the other, as the code runs it.
Only(S) == CHOOSE x \in S : TRUE

RECURSIVE Concat(_)
Concat(ss) == IF ss = <<>> THEN <<>> ELSE Head(ss) \o Concat(Tail(ss))

----------------------------------------------------------------------------
(* decodeHtmlEntities *)

HTML_ENTITIES == <<
  [entity |-> <<"&","a","m","p",";">>,         char |-> "&"],
  [entity |-> <<"&","l","t",";">>,             char |-> "<"],
  [entity |-> <<"&","g","t",";">>,             char |-> ">"],
  [entity |-> <<"&","q","u","o","t",";">>,     char |-> "\""],
  [entity |-> <<"&","#","3","9",";">>,         char |-> "'"],
  [entity |-> <<"&","a","p","o","s",";">>,     char |-> "'"],
  [entity |-> <<"&","n","b","s","p",";">>,     char |-> " "],
  [entity |-> <<"&","c","o","p","y",";">>,     char |-> "U+169"],
  [entity |-> <<"&","r","e","g",";">>,         char |-> "U+174"],
  [entity |-> <<"&","t","r","a","d","e",";">>, char |-> "U+8482"],
  [entity |-> <<"&","e","u","r","o",";">>,     char |-> "U+8364"],
  [entity |-> <<"&","p","o","u","n","d",";">>, char |-> "U+163"],
  [entity |-> <<"&","y","e","n",";">>,         char |-> "U+165"] >>

MinCodePoint == 1
MaxCodePoint == 1114111
SurrogateLow == 55296
SurrogateHigh == 57343
ReplacementChar == 65533

\* String.fromCodePoint(num)
FromCodePoint(num) ==
  IF num \in 32..126 THEN Ascii[num - 31]
  ELSE IF num = 9 THEN "\t"
  ELSE IF num = 10 THEN "\n"
  ELSE IF num = 12 THEN "\f"
  ELSE IF num = 13 THEN "\r"
  ELSE "U+" \o ToString(num)

\* parseInt of a run of digits in the given radix
RECURSIVE ParseDigits(_, _, _)
ParseDigits(ds, radix, acc) ==
  IF ds = <<>> THEN acc
  ELSE ParseDigits(Tail(ds), radix,
                   acc * radix + (IndexIn(ToLower(Head(ds)), HexDigits) - 1))

\* parseInt(code, 10) for code matching -?\d+
ParseIntDec(code) ==
  IF Head(code) = "-" THEN 0 - ParseDigits(Tail(code), 10, 0)
  ELSE ParseDigits(code, 10, 0)

\* NumericReplacement without the surrogate test
NumericReplacement_NoSurrogateTest(num) ==
  IF num >= MinCodePoint /\ num <= MaxCodePoint
  THEN IF num # ReplacementChar THEN <<FromCodePoint(num)>> ELSE <<>>
  ELSE <<>>

\* the callback shared by the decimal and the hexadecimal replace
NumericReplacement(num) ==
  IF num >= MinCodePoint /\ num <= MaxCodePoint
  THEN IF num >= SurrogateLow /\ num <= SurrogateHigh
       THEN <<>>
       ELSE IF num # ReplacementChar THEN <<FromCodePoint(num)>> ELSE <<>>
  ELSE <<>>

\* decoded.replace(new RegExp(entity, 'gi'), char)
ReplaceNamed(s, e) ==
  ReplaceAll(s,
    [i \in 1..Len(s) |-> IF MatchAtCI(s, i, e.entity) THEN Len(e.entity) ELSE 0],
    [i \in 1..Len(s) |-> <<e.char>>])

RECURSIVE ReplaceNamedFrom(_, _)
ReplaceNamedFrom(s, k) ==
  IF k > Len(HTML_ENTITIES) THEN s
  ELSE ReplaceNamedFrom(ReplaceNamed(s, HTML_ENTITIES[k]), k + 1)

\* length of a match of /&#(-?\d+);/ at i, 0 for none
DecimalMatchLen(s, i) ==
  IF ~MatchAt(s, i, <<"&", "#">>) THEN 0
  ELSE LET sign == IF i + 2 <= Len(s) /\ s[i + 2] = "-" THEN 1 ELSE 0
           n == RunLen(s, i + 2 + sign, [j \in 1..Len(s) |-> IsDigit(s[j])])
           end == i + 2 + sign + n
       IN IF n > 0 /\ end <= Len(s) /\ s[end] = ";" THEN end - i + 1 ELSE 0

ReplaceDecimal(s) ==
  ReplaceAll(s,
    [i \in 1..Len(s) |-> DecimalMatchLen(s, i)],
    [i \in 1..Len(s) |->
       IF DecimalMatchLen(s, i) = 0 THEN <<>>
       ELSE NumericReplacement(
              ParseIntDec(SubSeq(s, i + 2, i + DecimalMatchLen(s, i) - 2)))])

\* length of a match of /&#x([0-9a-f]+);/i at i, 0 for none
HexMatchLen(s, i) ==
  IF ~MatchAtCI(s, i, <<"&", "#", "x">>) THEN 0
  ELSE LET n == RunLen(s, i + 3, [j \in 1..Len(s) |-> IsHexDigit(s[j])])
           end == i + 3 + n
       IN IF n > 0 /\ end <= Len(s) /\ s[end] = ";" THEN end - i + 1 ELSE 0

ReplaceHex(s) ==
  ReplaceAll(s,
    [i \in 1..Len(s) |-> HexMatchLen(s, i)],
    [i \in 1..Len(s) |->
       IF HexMatchLen(s, i) = 0 THEN <<>>
       ELSE NumericReplacement(
              ParseDigits(SubSeq(s, i + 3, i + HexMatchLen(s, i) - 2), 16, 0))])

decodeHtmlEntities(s) == ReplaceHex(ReplaceDecimal(ReplaceNamedFrom(s, 1)))

----------------------------------------------------------------------------
(* State shared by the specifications: the parts a specification does not  *)
(* use stay at these values.                                               *)

IdleSanitizer == text = <<>> /\ out = <<>> /\ calls = 0
IdleCodec == ms = 0 /\ frameRate = 0 /\ fraction = <<>>
IdleParser ==
  document = <<>> /\ source = <<>> /\ blocks = <<>> /\ cues = <<>> /\ errors = <<>>
IdleEmitter == cueList = <<>> /\ titles = <<>>
IdleColor == hex = <<>> /\ color = <<>>
IdleBuilder ==
  options = <<>> /\ colors = <<>> /\ escapedTitle = <<>> /\ fcpxml = <<>> /\ templates = <<>>
IdleConfig == argv = <<>> /\ configFile = <<>> /\ mergedOptions = <<>> /\ keys = <<>>
IdleLogger == quietMode = FALSE /\ console = <<>> /\ loggerCalls = <<>>
IdleCommand == command = <<>> /\ files = <<>> /\ cliResult = <<>>
IdleCli == IdleConfig /\ IdleLogger /\ IdleCommand

\* how a call ended: nothing yet, a value returned, or an Error thrown with
\* the fixed words of its message and the value put into it
NoResult == [kind |-> "none", message |-> "", detail |-> ""]
Returned == [kind |-> "returned", message |-> "", detail |-> ""]
Thrown(message, detail) == [kind |-> "thrown", message |-> message, detail |-> detail]

\* all sequences of at most n elements of S
RECURSIVE SeqsUpTo(_, _)
SeqsUpTo(S, n) ==
  IF n = 0 THEN {<<>>}
  ELSE LET shorter == SeqsUpTo(S, n - 1)
       IN shorter \cup {Append(q, x) : q \in shorter, x \in S}

----------------------------------------------------------------------------
(* SpecDecode: one call of decodeHtmlEntities, pass by pass *)

DecRef(n) ==
  <<"&", "#">> \o (IF n < 0 THEN <<"-">> \o ToDigits(0 - n, 10) ELSE ToDigits(n, 10))
               \o <<";">>
HexRef(n) == <<"&", "#", "x">> \o ToDigits(n, 16) \o <<";">>

\* code points around every boundary the callback tests
RefValues == {0, 1, 38, 60, 65, 169, 55295, 55296, 57343, 57344,
              65532, 65533, 65534, 1114111, 1114112, 2000000}
NegativeRefValues == {0 - 1, 0 - 65}

PlainContexts == {<<>>, <<"a">>, <<"a", " ">>}

NumericInputs ==
  {pre \o DecRef(n) \o post :
     pre \in PlainContexts, post \in PlainContexts,
     n \in RefValues \cup NegativeRefValues}
  \cup {pre \o HexRef(n) \o post :
     pre \in PlainContexts, post \in PlainContexts, n \in RefValues}

DecodeTokens == {
  <<"&","a","m","p",";">>, <<"a","m","p",";">>, <<"&","A","M","P",";">>,
  <<"&","l","t",";">>, <<"l","t",";">>, <<"&","g","t",";">>,
  <<"&","#","3","8",";">>, <<"#","6","5",";">>, <<"#","x","4","1",";">>,
  <<"&","n","b","s","p",";">>, <<"&","f","o","o",";">>,
  <<"&">>, <<"a">>, <<";">> }

MaxDecodeTokens == 2

DecodeInputs ==
  {Concat(ts) : ts \in SeqsUpTo(DecodeTokens, MaxDecodeTokens)} \cup NumericInputs

InitDecode ==
  /\ pc = "named"
  /\ text \in DecodeInputs
  /\ out = text
  /\ calls = 0
  /\ result = NoResult
  /\ IdleCodec /\ IdleParser /\ IdleEmitter /\ IdleColor /\ IdleBuilder /\ IdleCli

\* the for loop over Object.entries(HTML_ENTITIES)
DecodeNamed ==
  /\ pc = "named"
  /\ out' = ReplaceNamedFrom(out, 1)
  /\ pc' = "decimal"
  /\ UNCHANGED <<text, calls, result, codecVars, parserVars, emitterVars, colorVars,
                 builderVars, cliVars>>

DecodeDecimal ==
  /\ pc = "decimal"
  /\ out' = ReplaceDecimal(out)
  /\ pc' = "hex"
  /\ UNCHANGED <<text, calls, result, codecVars, parserVars, emitterVars, colorVars,
                 builderVars, cliVars>>

DecodeHex ==
  /\ pc = "hex"
  /\ out' = ReplaceHex(out)
  /\ pc' = "done"
  /\ UNCHANGED <<text, calls, result, codecVars, parserVars, emitterVars, colorVars,
                 builderVars, cliVars>>

NextDecode == DecodeNamed \/ DecodeDecimal \/ DecodeHex

SpecDecode == InitDecode /\ [][NextDecode]_vars

----------------------------------------------------------------------------
(* stripHtmlTags *)

\* s has a c at or after position i
HasFrom(s, i, c) == \E j \in i..Len(s) : s[j] = c
\* the first position at or after i that holds c
FirstFrom(s, i, c) ==
  CHOOSE j \in i..Len(s) : s[j] = c /\ \A k \in i..(j - 1) : s[k] # c

\* number of whitespace characters from position i on (\s*)
SpaceRun(s, i) == RunLen(s, i, [j \in 1..Len(s) |-> IsSpace(s[j])])
\* number of characters equal to c from position i on
CharRun(s, i, c) == RunLen(s, i, [j \in 1..Len(s) |-> s[j] = c])

CommentOpen == <<"<", "!", "-", "-">>
CommentClose == <<"-", "-", ">">>

hadHtmlTags(s) ==             \* /<[^>]*>/.test(text)
  \E i \in 1..Len(s) : s[i] = "<" /\ HasFrom(s, i + 1, ">")
hadHtmlComments(s) ==         \* /<!--[\s\S]*?-->/.test(text)
  \E i \in 1..Len(s) :
    MatchAt(s, i, CommentOpen) /\ \E j \in (i + 4)..Len(s) : MatchAt(s, j, CommentClose)
hadHtmlEntities(s) ==         \* /&[#\w]+;/.test(text)
  \E i \in 1..Len(s) :
    /\ s[i] = "&"
    /\ LET n == RunLen(s, i + 1, [j \in 1..Len(s) |-> s[j] = "#" \/ IsWordChar(s[j])])
       IN n > 0 /\ i + 1 + n <= Len(s) /\ s[i + 1 + n] = ";"

\* The while loop that removes comments: i is the read position, depth is
\* commentDepth and res is result.  Characters that start neither marker
\* are handled a run at a time: copied at depth 0, skipped inside a comment.
IsMarkerAt(s, i) == MatchAt(s, i, CommentOpen) \/ MatchAt(s, i, CommentClose)

RECURSIVE ScanComments(_, _, _, _)
ScanComments(s, i, depth, res) ==
  IF i > Len(s) THEN res
  ELSE IF MatchAt(s, i, CommentOpen)
    THEN ScanComments(s, i + 4, depth + 1,
           IF depth = 0 /\ Len(res) > 0 /\ res[Len(res)] # " "
           THEN Append(res, " ") ELSE res)
  ELSE IF MatchAt(s, i, CommentClose)
    THEN IF depth > 0
         THEN ScanComments(s, i + (IF depth - 1 > 0 THEN 3 ELSE 1), depth - 1,
                IF depth - 1 = 0 /\ i + 3 <= Len(s) /\ ~IsSpace(s[i + 3])
                THEN Append(res, " ") ELSE res)
         ELSE ScanComments(s, i + 1, depth, Append(res, s[i]))
  ELSE LET j == CHOOSE j \in (i + 1)..(Len(s) + 1) :
                  (j > Len(s) \/ IsMarkerAt(s, j))
                  /\ \A k \in (i + 1)..(j - 1) : ~IsMarkerAt(s, k)
       IN ScanComments(s, j, depth,
            IF depth = 0 THEN res \o SubSeq(s, i, j - 1) ELSE res)

RemoveComments(s) == ScanComments(s, 1, 0, <<>>)

\* /<name[\s\S]*?<\/name>/gi replaced by ''
BlockMatchLen(s, i, open, close) ==
  IF MatchAtCI(s, i, open)
     /\ \E j \in (i + Len(open))..Len(s) : MatchAtCI(s, j, close)
  THEN (CHOOSE j \in (i + Len(open))..Len(s) :
          /\ MatchAtCI(s, j, close)
          /\ \A k \in (i + Len(open))..(j - 1) : ~MatchAtCI(s, k, close))
       + Len(close) - i
  ELSE 0

RemoveBlocks(s, open, close) ==
  ReplaceAll(s, [i \in 1..Len(s) |-> BlockMatchLen(s, i, open, close)],
                [i \in 1..Len(s) |-> <<>>])

ScriptOpen == <<"<", "s", "c", "r", "i", "p", "t">>
ScriptClose == <<"<", "/", "s", "c", "r", "i", "p", "t", ">">>
StyleOpen == <<"<", "s", "t", "y", "l", "e">>
StyleClose == <<"<", "/", "s", "t", "y", "l", "e", ">">>

\* /\bstyle\s*=\s*["']([^"']*)["']/gi replaced by '' (both branches of the
\* callback return '')
IsQuote(c) == c = "\"" \/ c = "'"
StyleAttrMatchLen(s, i) ==
  IF ~(MatchAtCI(s, i, <<"s", "t", "y", "l", "e">>) /\ (i = 1 \/ ~IsWordChar(s[i - 1])))
  THEN 0
  ELSE LET eq == i + 5 + SpaceRun(s, i + 5)
           q == eq + 1 + SpaceRun(s, eq + 1)
       IN IF eq <= Len(s) /\ s[eq] = "=" /\ q <= Len(s) /\ IsQuote(s[q])
             /\ \E j \in (q + 1)..Len(s) : IsQuote(s[j])
          THEN (CHOOSE j \in (q + 1)..Len(s) :
                  IsQuote(s[j]) /\ \A k \in (q + 1)..(j - 1) : ~IsQuote(s[k]))
               - i + 1
          ELSE 0

RemoveStyleAttributes(s) ==
  ReplaceAll(s, [i \in 1..Len(s) |-> StyleAttrMatchLen(s, i)],
                [i \in 1..Len(s) |-> <<>>])

\* length of a match of /<\/?(?:name|...)(?:\s[^>]*)?\/?>/i at i, 0 for none
TagTailLen(s, q) ==      \* (?:\s[^>]*)?\/?> at q
  IF q > Len(s) THEN 0
  ELSE IF s[q] = ">" THEN 1
  ELSE IF s[q] = "/" /\ q + 1 <= Len(s) /\ s[q + 1] = ">" THEN 2
  ELSE IF IsSpace(s[q]) /\ HasFrom(s, q + 1, ">") THEN FirstFrom(s, q + 1, ">") - q + 1
  ELSE 0

TagMatchLen(s, i, names) ==
  IF i > Len(s) \/ s[i] # "<" THEN 0
  ELSE LET p == IF i + 1 <= Len(s) /\ s[i + 1] = "/" THEN i + 2 ELSE i + 1
           ok == {n \in names : MatchAtCI(s, p, n) /\ TagTailLen(s, p + Len(n)) > 0}
       IN IF ok = {} THEN 0
          ELSE LET n == CHOOSE n \in ok : TRUE
               IN p + Len(n) + TagTailLen(s, p + Len(n)) - i

ReplaceTags(s, names, with) ==
  ReplaceAll(s, [i \in 1..Len(s) |-> TagMatchLen(s, i, names)],
                [i \in 1..Len(s) |-> with])

InlineTags == { <<"b">>, <<"i">>, <<"u">>, <<"s","t","r","o","n","g">>, <<"e","m">>,
                <<"f","o","n","t">>, <<"s","m","a","l","l">>, <<"s","u","b">>,
                <<"s","u","p">>, <<"s","p","a","n">>, <<"a">> }
RuleTags == { <<"h","r">> }
BreakTags == { <<"b","r">> }
BlockTags == { <<"p">>, <<"d","i","v">> }

\* /([.!?:;])<\/?br(?:\s[^>]*)?\/?>/gi replaced by '$1 '
IsTerminal(c) == c \in {".", "!", "?", ":", ";"}
ReplaceBreaksAfterPunctuation(s) ==
  ReplaceAll(s,
    [i \in 1..Len(s) |->
       IF IsTerminal(s[i]) /\ TagMatchLen(s, i + 1, BreakTags) > 0
       THEN 1 + TagMatchLen(s, i + 1, BreakTags) ELSE 0],
    [i \in 1..Len(s) |-> <<s[i], " ">>])

\* /<[^>]*>/g replaced by ' '
ReplaceAnyTag(s) ==
  ReplaceAll(s,
    [i \in 1..Len(s) |->
       IF s[i] = "<" /\ HasFrom(s, i + 1, ">") THEN FirstFrom(s, i + 1, ">") - i + 1 ELSE 0],
    [i \in 1..Len(s) |-> <<" ">>])

\* /<[^<]*$/g replaced by ''
RemoveMalformedTagStart(s) ==
  ReplaceAll(s,
    [i \in 1..Len(s) |->
       IF s[i] = "<" /\ ~HasFrom(s, i + 1, "<") THEN Len(s) - i + 1 ELSE 0],
    [i \in 1..Len(s) |-> <<>>])

\* the whitespace clean-up, lines 323-332
TabsToSpaces(s) ==
  [i \in 1..Len(s) |-> IF s[i] \in {"\t", "\r", "\f", "U+11"} THEN " " ELSE s[i]]
\* CollapseSpaces leaving every run of spaces as it is
CollapseSpaces_Unchanged(s) == s

CollapseSpaces(s) ==          \* / {3,}/g -> '  '
  ReplaceAll(s, [i \in 1..Len(s) |-> IF CharRun(s, i, " ") >= 3 THEN CharRun(s, i, " ") ELSE 0],
                [i \in 1..Len(s) |-> <<" ", " ">>])
CollapseNewlines(s) ==        \* /\n+/g -> '\n'
  ReplaceAll(s, [i \in 1..Len(s) |-> CharRun(s, i, "\n")],
                [i \in 1..Len(s) |-> <<"\n">>])
SpacesBeforeNewline(s) ==     \* / +\n/g -> '\n'
  ReplaceAll(s,
    [i \in 1..Len(s) |->
       LET n == CharRun(s, i, " ")
       IN IF n > 0 /\ i + n <= Len(s) /\ s[i + n] = "\n" THEN n + 1 ELSE 0],
    [i \in 1..Len(s) |-> <<"\n">>])
SpacesAfterNewline(s) ==      \* /\n +/g -> '\n'
  ReplaceAll(s,
    [i \in 1..Len(s) |->
       IF s[i] = "\n" /\ CharRun(s, i + 1, " ") > 0 THEN 1 + CharRun(s, i + 1, " ") ELSE 0],
    [i \in 1..Len(s) |-> <<"\n">>])

CleanWhitespace(s) ==
  SpacesAfterNewline(SpacesBeforeNewline(CollapseNewlines(CollapseSpaces(TabsToSpaces(s)))))

\* number of characters from position i backwards that satisfy ok
RunLenBack(s, i, ok) ==
  IF i < 1 THEN 0
  ELSE i - (CHOOSE j \in 0..i : (j = 0 \/ ~ok[j]) /\ \A k \in (j + 1)..i : ok[k])

\* s without the leading and the trailing characters that satisfy Test
TrimStartOf(s, ok) == SubSeq(s, 1 + RunLen(s, 1, ok), Len(s))
TrimEndOf(s, ok) == SubSeq(s, 1, Len(s) - RunLenBack(s, Len(s), ok))

Trim(s) ==                    \* String.prototype.trim
  LET a == TrimStartOf(s, [j \in 1..Len(s) |-> IsSpace(s[j])])
  IN TrimEndOf(a, [j \in 1..Len(a) |-> IsSpace(a[j])])
TrimLeadingSpaces(s) == TrimStartOf(s, [j \in 1..Len(s) |-> s[j] = " "])     \* /^ +/
TrimTrailingSpaces(s) == TrimEndOf(s, [j \in 1..Len(s) |-> s[j] = " "])      \* / +$/
TrimNewlines(s) ==            \* /^\n+/ and /\n+$/
  LET a == TrimStartOf(s, [j \in 1..Len(s) |-> s[j] = "\n"])
  IN TrimEndOf(a, [j \in 1..Len(a) |-> a[j] = "\n"])

Nbsp == <<"&", "n", "b", "s", "p", ";">>
hasLeadingEntitySpace(s) ==   \* originalText.match(/^\s*&nbsp;/)
  MatchAt(s, 1 + SpaceRun(s, 1), Nbsp)
hasTrailingEntitySpace(s) ==  \* originalText.match(/&nbsp;\s*$/)
  \E i \in 1..Len(s) : MatchAt(s, i, Nbsp) /\ i + 6 + SpaceRun(s, i + 6) > Len(s)

\* lines 336-357
TrimPolicy(originalText, cleaned) ==
  IF hadHtmlTags(originalText) \/ hadHtmlComments(originalText) \/ hadHtmlEntities(originalText)
  THEN IF ~hasLeadingEntitySpace(originalText) /\ ~hasTrailingEntitySpace(originalText)
       THEN Trim(cleaned)
       ELSE LET a == IF ~hasLeadingEntitySpace(originalText)
                     THEN TrimLeadingSpaces(cleaned) ELSE cleaned
            IN IF ~hasTrailingEntitySpace(originalText) THEN TrimTrailingSpaces(a) ELSE a
  ELSE TrimNewlines(cleaned)

\* lines 281-316: every tag pass, in the order of the code
RemoveMarkup(s) ==
  RemoveMalformedTagStart(
    ReplaceAnyTag(
      ReplaceTags(
        ReplaceTags(
          ReplaceBreaksAfterPunctuation(
            ReplaceTags(
              ReplaceTags(
                RemoveStyleAttributes(
                  RemoveBlocks(RemoveBlocks(s, ScriptOpen, ScriptClose),
                               StyleOpen, StyleClose)),
                InlineTags, <<>>),
              RuleTags, <<>>)),
          BreakTags, <<>>),
        BlockTags, <<" ">>)))

stripHtmlTags(s) ==
  Only({TrimPolicy(s, w) :
          w \in {CleanWhitespace(d) :
                   d \in {decodeHtmlEntities(m) :
                            m \in {RemoveMarkup(c) : c \in {RemoveComments(s)}}}}})

----------------------------------------------------------------------------
(* millisecondsToFraction.  JavaScript numbers are IEEE-754 doubles: ms / 1000 *)
(* and seconds * frameRate are each rounded to 53 significant bits (round to   *)
(* nearest, ties to even).  A significand is a sequence of bits, most          *)
(* significant first; a double is [mant, frac], standing for mant * 2^(-frac). *)

MantissaBits == 53
MsPerSecond == 1000

\* binary digits of n, most significant first (empty for 0)
RECURSIVE IntBits(_)
IntBits(n) == IF n = 0 THEN <<>> ELSE Append(IntBits(n \div 2), n % 2)

\* value of a bit sequence
RECURSIVE BitsToInt(_, _)
BitsToInt(bits, acc) ==
  IF bits = <<>> THEN acc ELSE BitsToInt(Tail(bits), 2 * acc + Head(bits))

\* bits + 1
RECURSIVE Increment(_)
Increment(bits) ==
  IF bits = <<>> THEN <<1>>
  ELSE IF bits[Len(bits)] = 0 THEN Append(SubSeq(bits, 1, Len(bits) - 1), 1)
  ELSE Append(Increment(SubSeq(bits, 1, Len(bits) - 1)), 0)

\* bits padded with leading zeros to width w
PadBits(bits, w) ==
  IF w <= Len(bits) THEN bits ELSE [j \in 1..(w - Len(bits)) |-> 0] \o bits

\* bits without its leading zeros
StripZeros(bits) ==
  IF \A j \in 1..Len(bits) : bits[j] = 0 THEN <<>>
  ELSE SubSeq(bits, CHOOSE i \in 1..Len(bits) :
                      bits[i] = 1 /\ \A j \in 1..(i - 1) : bits[j] = 0,
              Len(bits))

\* round an exact value bits * 2^(-frac) (+ something below the last bit when
\* sticky) to MantissaBits significant bits, to nearest, ties to even
RoundBits(bits, frac, sticky) ==
  IF Len(bits) <= MantissaBits THEN [mant |-> bits, frac |-> frac]
  ELSE LET d == Len(bits) - MantissaBits
           kept == SubSeq(bits, 1, MantissaBits)
           dropped == SubSeq(bits, MantissaBits + 1, Len(bits))
           rest == sticky \/ \E j \in 2..d : dropped[j] = 1
           up == dropped[1] = 1 /\ (rest \/ kept[MantissaBits] = 1)
           m == IF up THEN Increment(kept) ELSE kept
       IN IF Len(m) > MantissaBits
          THEN [mant |-> SubSeq(m, 1, MantissaBits), frac |-> frac - d - 1]
          ELSE [mant |-> m, frac |-> frac - d]

\* Long division num / den carried 64 bits below the binary point, 16 bits
\* at a time; rem is what is left over.
DivideBits(num, den) ==
  LET r0 == num % den
      r1 == (r0 * 65536) % den
      r2 == (r1 * 65536) % den
      r3 == (r2 * 65536) % den
  IN [bits |-> IntBits(num \div den)
                 \o PadBits(IntBits((r0 * 65536) \div den), 16)
                 \o PadBits(IntBits((r1 * 65536) \div den), 16)
                 \o PadBits(IntBits((r2 * 65536) \div den), 16)
                 \o PadBits(IntBits((r3 * 65536) \div den), 16),
      rem |-> (r3 * 65536) % den,
      frac |-> 64]

\* the double nearest to num / den (0 < num, 2^(-10) <= num / den < 2^30)
DoubleDivide(num, den) ==
  LET q == DivideBits(num, den)
  IN RoundBits(StripZeros(q.bits), q.frac, q.rem > 0)

\* bits * k for a small integer k, exactly; the product is formed 16 bits
\* at a time from the low end, carry being what the lower part passed up
RECURSIVE MulSmall(_, _, _)
MulSmall(bits, k, carry) ==
  IF bits = <<>> THEN IntBits(carry)
  ELSE LET n == Len(bits)
           w == IF n < 16 THEN n ELSE 16
           t == BitsToInt(SubSeq(bits, n - w + 1, n), 0) * k + carry
       IN MulSmall(SubSeq(bits, 1, n - w), k, t \div (2 ^ w))
            \o PadBits(IntBits(t % (2 ^ w)), w)

\* the double nearest to x * k
DoubleTimes(x, k) == RoundBits(MulSmall(x.mant, k, 0), x.frac, FALSE)

\* Math.floor of a double x >= 0 whose integer part fits an integer
DoubleFloor(x) ==
  IF x.frac >= Len(x.mant) THEN 0
  ELSE IF x.frac >= 0 THEN BitsToInt(SubSeq(x.mant, 1, Len(x.mant) - x.frac), 0)
  ELSE BitsToInt(x.mant \o [j \in 1..(0 - x.frac) |-> 0], 0)

\* Math.floor((ms / 1000) * frameRate)
Frames(m, rate) ==
  IF m = 0 THEN 0
  ELSE DoubleFloor(DoubleTimes(DoubleDivide(m, MsPerSecond), rate))

\* `${frames}/${frameRate}s`
FormatFraction(frames, rate) ==
  ToDigits(frames, 10) \o <<"/">> \o ToDigits(rate, 10) \o <<"s">>

millisecondsToFraction(m, rate) == FormatFraction(Frames(m, rate), rate)

----------------------------------------------------------------------------
(* SpecCodec: one call of millisecondsToFraction *)

MaxMs == 1200
FrameRates == {24, 25, 30, 50, 60}

InitCodec ==
  /\ pc = "fraction"
  /\ ms \in 0..MaxMs
  /\ frameRate \in FrameRates
  /\ fraction = <<>>
  /\ result = NoResult
  /\ IdleSanitizer /\ IdleParser /\ IdleEmitter /\ IdleColor /\ IdleBuilder /\ IdleCli

MillisecondsToFraction ==
  /\ pc = "fraction"
  /\ fraction' = millisecondsToFraction(ms, frameRate)
  /\ pc' = "done"
  /\ UNCHANGED <<ms, frameRate, result, sanitizerVars, parserVars, emitterVars,
                 colorVars, builderVars, cliVars>>

NextCodec == MillisecondsToFraction

SpecCodec == InitCodec /\ [][NextCodec]_vars

\* C10: for every ms >= 0 and every positive integer frame rate r the
\* timecode is "<floor(ms * r / 1000)>/<r>s": partial frames are cut off and
\* a whole frame is never lost.
C10_FramesAreExactFloor ==
  pc = "done" =>
    fraction = ToDigits((ms * frameRate) \div 1000, 10) \o <<"/">>
                 \o ToDigits(frameRate, 10) \o <<"s">>

----------------------------------------------------------------------------
(* SpecStrip: stripHtmlTags called on a text, then again on what it returned *)

StripTokens == {
  <<"<">>, <<">">>, <<"<","s","c","r","i","p","t">>,
  <<"<","/","s","c","r","i","p","t",">">>, <<"x">>, <<" ">>,
  <<"&","l","t",";">>, <<"<","!","-","-">>, <<"-","-",">">>,
  <<"&","n","b","s","p",";">> }

MaxStripTokens == 3
MaxStripCalls == 2
MaxBlockTokens == 2

StripInputs == {Concat(ts) : ts \in SeqsUpTo(StripTokens, MaxStripTokens)}

\* balanced comments, the last one with a comment nested in it
BalancedComments ==
  {<<"<", "!", "-", "-", " ", "c", " ", "-", "-", ">">>, <<"<", "!", "-", "-", "c", "-", "-", ">">>,
   <<"<", "!", "-", "-", " ", "c", " ", "<", "!", "-", "-", " ", "d", " ",
      "-", "-", ">", " ", "e", " ", "-", "-", ">">>}

\* a word, a balanced comment and a word, with or without spaces between
CommentInputs ==
  {before \o comment \o after :
     before \in {<<"T", "e", "x", "t", " ">>, <<"T", "e", "x", "t">>},
     comment \in BalancedComments,
     after \in {<<" ", "m", "o", "r", "e">>, <<"m", "o", "r", "e">>}}

\* a script or style block with k, comment markers or nothing in it, and
\* text around it
BlockInputs ==
  {before \o block[1] \o Concat(content) \o block[2] \o after :
     before \in {<<>>, <<"a">>},
     block \in {<<ScriptOpen \o <<">">>, ScriptClose>>, <<StyleOpen \o <<">">>, StyleClose>>},
     content \in SeqsUpTo({<<"k">>, CommentOpen, CommentClose}, MaxBlockTokens),
     after \in {<<>>, <<"b">>, CommentClose \o <<"b">>}}

InitStrip ==
  /\ pc = "strip"
  /\ text \in StripInputs \cup CommentInputs \cup BlockInputs
  /\ out = <<>>
  /\ calls = 0
  /\ result = NoResult
  /\ IdleCodec /\ IdleParser /\ IdleEmitter /\ IdleColor /\ IdleBuilder /\ IdleCli

StripHtmlTags ==
  /\ pc = "strip"
  /\ out' = stripHtmlTags(text)
  /\ calls' = calls + 1
  /\ pc' = "done"
  /\ UNCHANGED <<text, result, codecVars, parserVars, emitterVars, colorVars,
                 builderVars, cliVars>>

\* the caller passes the returned text to stripHtmlTags once more
StripAgain ==
  /\ pc = "done"
  /\ calls < MaxStripCalls
  /\ text' = out
  /\ pc' = "strip"
  /\ UNCHANGED <<out, calls, result, codecVars, parserVars, emitterVars, colorVars,
                 builderVars, cliVars>>

NextStrip == StripHtmlTags \/ StripAgain

SpecStrip == InitStrip /\ [][NextStrip]_vars

\* C6: whatever the input, what stripHtmlTags returns holds no "<script",
\* no "<style" (in any letter case) and no "<" with a ">" somewhere after it.
C6_OutputHasNoTag ==
  pc = "done" =>
    /\ ~ContainsCI(out, ScriptOpen)
    /\ ~ContainsCI(out, StyleOpen)
    /\ ~\E i \in 1..Len(out) : out[i] = "<" /\ HasFrom(out, i + 1, ">")

\* C7: stripHtmlTags applied to its own result returns that result.
C7_StripIsIdempotent ==
  (pc = "done" /\ calls = 2) => out = text

\* C18: stripHtmlTags removes a balanced comment wholly, a nested one too:
\* nothing of its body or of its markers remains, and the words on its two
\* sides are separated by exactly one space ('Text <!-- c --> more' becomes
\* 'Text more').
C18_BalancedCommentRemoved ==
  (pc = "done" /\ calls = 1 /\ text \in CommentInputs)
    => out = <<"T", "e", "x", "t", " ", "m", "o", "r", "e">>

\* the characters of s
Chars(s) == {s[i] : i \in 1..Len(s)}

\* text holds a block from the opening tag at i to the end of the first
\* closing tag after it, at j
IsBlock(s, i, j, open, close) ==
  /\ MatchAtCI(s, i, open \o <<">">>)
  /\ j >= i + Len(open) + 1
  /\ MatchAtCI(s, j, close)
  /\ \A k \in (i + Len(open) + 1)..(j - 1) : ~MatchAtCI(s, k, close)

\* C19: a script or style block is removed with all of its content: no
\* character the block's content brings in is in what stripHtmlTags returns,
\* whatever else, comment markers included, stands in or around the block.
C19_BlockContentRemoved ==
  (pc = "done" /\ calls = 1)
    => \A tags \in {<<ScriptOpen, ScriptClose>>, <<StyleOpen, StyleClose>>} :
         \A i \in 1..Len(text), j \in 1..Len(text) :
           IsBlock(text, i, j, tags[1], tags[2])
             => LET content == SubSeq(text, i + Len(tags[1]) + 1, j - 1)
                    around == SubSeq(text, 1, i - 1)
                                \o SubSeq(text, j + Len(tags[2]), Len(text))
                IN \A c \in Chars(content) \ (Chars(around) \cup {" "}) :
                     c \notin Chars(out)

\* C20: what stripHtmlTags returns has no leading and no trailing space,
\* except for one leading space when the input began with &nbsp; and one
\* trailing space when it ended with &nbsp;.
C20_TrimmedExceptNbsp ==
  (pc = "done" /\ calls = 1)
    => /\ CharRun(out, 1, " ") <= (IF MatchAt(text, 1, Nbsp) THEN 1 ELSE 0)
       /\ RunLenBack(out, Len(out), [i \in 1..Len(out) |-> out[i] = " "])
            <= (IF Len(text) >= Len(Nbsp) /\ MatchAt(text, Len(text) - Len(Nbsp) + 1, Nbsp)
                THEN 1 ELSE 0)

----------------------------------------------------------------------------
(* parseSrt *)

\* String.prototype.split with a regular expression: m[i] is the length of
\* the separator starting at i (0 for none)
RECURSIVE SplitFrom(_, _, _)
SplitFrom(s, m, i) ==
  IF \A j \in i..Len(s) : m[j] = 0 THEN <<SubSeq(s, i, Len(s))>>
  ELSE LET j == CHOOSE j \in i..Len(s) : m[j] > 0 /\ \A k \in i..(j - 1) : m[k] = 0
       IN <<SubSeq(s, i, j - 1)>> \o SplitFrom(s, m, j + m[j])
Split(s, m) == SplitFrom(s, m \o <<>>, 1)

RECURSIVE Join(_, _)
Join(parts, sep) ==           \* Array.prototype.join
  IF parts = <<>> THEN <<>>
  ELSE IF Len(parts) = 1 THEN parts[1]
  ELSE parts[1] \o sep \o Join(Tail(parts), sep)

IsBlank(s) == Trim(s) = <<>>  \* !s.trim()

\* source.replace(/\r\n/g, '\n').replace(/\r/g, '\n')
Normalize(s) ==
  Only({ReplaceChar(a, "\r", <<"\n">>) :
          a \in {ReplaceAll(s,
                   [i \in 1..Len(s) |-> IF MatchAt(s, i, <<"\r", "\n">>) THEN 2 ELSE 0],
                   [i \in 1..Len(s) |-> <<"\n">>])}})

\* /\n\n+/ at position i
BlankLinesMatchLen(s, i) ==
  IF MatchAt(s, i, <<"\n", "\n">>) THEN CharRun(s, i, "\n") ELSE 0

\* normalized.split(/\n\n+/).filter((block) => block.trim())
SplitBlocks(normalized) ==
  SelectSeq(Split(normalized,
                  [i \in 1..Len(normalized) |-> BlankLinesMatchLen(normalized, i)]),
            LAMBDA block : ~IsBlank(block))

\* block.split('\n').filter((line) => line.trim())
SplitLines(block) ==
  SelectSeq(Split(block, [i \in 1..Len(block) |-> IF block[i] = "\n" THEN 1 ELSE 0]),
            LAMBDA line : ~IsBlank(line))

\* parseInt(s, 10): leading white space, an optional sign, then the longest
\* run of digits; NaN when that run is empty
IntBody(s) ==
  LET t == TrimStartOf(s, [j \in 1..Len(s) |-> IsSpace(s[j])])
  IN IF t # <<>> /\ t[1] \in {"+", "-"} THEN Tail(t) ELSE t
IntDigits(s) ==
  LET body == IntBody(s)
  IN SubSeq(body, 1, RunLen(body, 1, [j \in 1..Len(body) |-> IsDigit(body[j])]))
IsNaNInt(s) == IntDigits(s) = <<>>
parseInt(s) ==
  LET t == TrimStartOf(s, [j \in 1..Len(s) |-> IsSpace(s[j])])
  IN IF t[1] = "-" THEN 0 - ParseDigits(IntDigits(s), 10, 0)
     ELSE ParseDigits(IntDigits(s), 10, 0)

\* String(n) for an integer n
NumberToString(n) ==
  IF n < 0 THEN <<"-">> \o ToDigits(0 - n, 10) ELSE ToDigits(n, 10)

\* (\d{2}):(\d{2}):(\d{2}),(\d{3}) at position i
TimestampLen == 12
IsTimestampAt(s, i) ==
  /\ i >= 1
  /\ i + TimestampLen - 1 <= Len(s)
  /\ \A k \in 0..(TimestampLen - 1) :
       IF k \in {2, 5} THEN s[i + k] = ":"
       ELSE IF k = 8 THEN s[i + k] = ","
       ELSE IsDigit(s[i + k])

Arrow == <<"-", "-", ">">>

\* /^(\d{2}):(\d{2}):(\d{2}),(\d{3})\s*-->\s*(\d{2}):(\d{2}):(\d{2}),(\d{3})$/ :
\* the position of the right timestamp, 0 when the line does not match
TimecodeMatch(line) ==
  IF ~IsTimestampAt(line, 1) THEN 0
  ELSE LET a == TimestampLen + 1 + SpaceRun(line, TimestampLen + 1)
       IN IF ~MatchAt(line, a, Arrow) THEN 0
          ELSE LET b == a + Len(Arrow) + SpaceRun(line, a + Len(Arrow))
               IN IF IsTimestampAt(line, b) /\ b + TimestampLen - 1 = Len(line)
                  THEN b ELSE 0

FieldAt(s, i, n) == ParseDigits(SubSeq(s, i, i + n - 1), 10, 0)

\* hours * 3600000 + minutes * 60000 + seconds * 1000 + milliseconds,
\* with the minutes weighted like seconds
parseTimecode_MinutesAsSeconds(hours, minutes, seconds, milliseconds) ==
  hours * 3600000 + minutes * 1000 + seconds * 1000 + milliseconds

parseTimecode(hours, minutes, seconds, milliseconds) ==
  hours * 3600000 + minutes * 60000 + seconds * 1000 + milliseconds

\* parseTimecode of the four groups of the timestamp at position i
TimeAt(line, i) ==
  parseTimecode(FieldAt(line, i, 2), FieldAt(line, i + 3, 2),
                FieldAt(line, i + 6, 2), FieldAt(line, i + 9, 3))

\* a diagnostic string: the fixed words of its template literal, then the
\* characters of the values put into it
Diagnostic(prefix, rest) == [prefix |-> prefix, rest |-> rest]

\* endTime <= startTime with the equal case let through
TimingRejected_Strict(startTime, endTime) == endTime < startTime

TimingRejected(startTime, endTime) == endTime <= startTime

\* Array.prototype.unshift
Unshift(list, item) == <<item>> \o list

\* Array.prototype.push
Push(list, item) == Append(list, item)

PreviewLen == 50

\* lines.slice(2).join('\n'), without leading and trailing newlines, then
\* stripHtmlTags and decodeHtmlEntities
CueText(lines) ==
  Only({decodeHtmlEntities(stripped) :
          stripped \in {stripHtmlTags(joined) :
                          joined \in {TrimNewlines(Join(SubSeq(lines, 3, Len(lines)),
                                                        <<"\n">>))}}})

\* the way the loop body takes for the lines of one block, up to the point
\* where the text is read: the branch, and the values known by then
BranchOfTimecode(index, lines, timecodeLine, right) ==
  IF right = 0
  THEN [kind |-> "invalid timecode", lines |-> lines, index |-> index,
        timecodeLine |-> timecodeLine, startTime |-> 0, endTime |-> 0]
  ELSE [kind |-> IF TimingRejected(TimeAt(timecodeLine, 1), TimeAt(timecodeLine, right))
                 THEN "end not after start" ELSE "cue",
        lines |-> lines, index |-> index, timecodeLine |-> timecodeLine,
        startTime |-> TimeAt(timecodeLine, 1),
        endTime |-> TimeAt(timecodeLine, right)]

BranchOfLines(lines) ==
  IF Len(lines) < 2
  THEN [kind |-> "incomplete", lines |-> lines, index |-> 0,
        timecodeLine |-> <<>>, startTime |-> 0, endTime |-> 0]
  ELSE IF IsNaNInt(Trim(lines[1]))
  THEN [kind |-> "invalid index", lines |-> lines, index |-> 0,
        timecodeLine |-> <<>>, startTime |-> 0, endTime |-> 0]
  ELSE Only({BranchOfTimecode(parseInt(Trim(lines[1])), lines, timecodeLine,
                              TimecodeMatch(timecodeLine)) :
               timecodeLine \in {Trim(lines[2])}})

BranchOf(block) == Only({BranchOfLines(lines) : lines \in {SplitLines(block)}})

\* what the loop body pushes once endTime > startTime is known
\* PushedCue skipping the cue whose text is empty
PushedCue_SkipsEmptyText(branch, cueText) ==
  IF cueText = <<>>
  THEN [cues |-> <<>>,
        errors |-> <<Diagnostic("Empty text in cue ", NumberToString(branch.index))>>]
  ELSE [cues |-> <<[index |-> branch.index, startMs |-> branch.startTime,
                    endMs |-> branch.endTime, text |-> cueText]>>,
        errors |-> <<>>]

PushedCue(branch, cueText) ==
  [cues |-> <<[index |-> branch.index, startMs |-> branch.startTime,
               endMs |-> branch.endTime, text |-> cueText]>>,
   errors |-> IF cueText = <<>>
              THEN <<Diagnostic("Empty text in cue ", NumberToString(branch.index))>>
              ELSE <<>>]

\* what the loop body pushes to cues and errors on the given branch
Pushed(block, branch) ==
  CASE branch.kind = "incomplete" ->
         [cues |-> <<>>,
          errors |-> <<Diagnostic("Skipping incomplete block: ",
                         SubSeq(block, 1, IF Len(block) < PreviewLen
                                          THEN Len(block) ELSE PreviewLen))>>]
    [] branch.kind = "invalid index" ->
         [cues |-> <<>>,
          errors |-> <<Diagnostic("Invalid index: ", Trim(branch.lines[1]))>>]
    [] branch.kind = "invalid timecode" ->
         [cues |-> <<>>,
          errors |-> <<Diagnostic("Invalid timecode format: ", branch.timecodeLine)>>]
    [] branch.kind = "end not after start" ->
         [cues |-> <<>>,
          errors |-> <<Diagnostic("End time must be after start time in cue ",
                         NumberToString(branch.index) \o <<":", " ">>
                           \o branch.timecodeLine)>>]
    [] branch.kind = "cue" ->
         Only({PushedCue(branch, cueText) : cueText \in {CueText(branch.lines)}})

\* the body of the for loop for one block
ProcessBlock(block) == Only({Pushed(block, branch) : branch \in {BranchOf(block)}})

\* cues and errors after the loop body has run for one more block
Accumulate(res, step) ==
  [cues |-> IF step.cues = <<>> THEN res.cues ELSE Push(res.cues, step.cues[1]),
   errors |-> IF step.errors = <<>> THEN res.errors
              ELSE Push(res.errors, step.errors[1])]

RECURSIVE ParseBlocks(_, _)
ParseBlocks(bs, res) ==
  IF bs = <<>> THEN res
  ELSE Only({ParseBlocks(Tail(bs), next) :
               next \in {Accumulate(res, step) : step \in {ProcessBlock(Head(bs))}}})

parseSrt(src) ==
  Only({ParseBlocks(bs, [cues |-> <<>>, errors |-> <<>>]) :
          bs \in {SplitBlocks(normalized) : normalized \in {Normalize(src)}}})

----------------------------------------------------------------------------
(* validateXmlInput, sanitizeXmlInput, escapeXmlContent *)

Doctype == <<"<", "!", "D", "O", "C", "T", "Y", "P", "E">>
EntityDecl == <<"<", "!", "E", "N", "T", "I", "T", "Y">>
CdataOpen == <<"<", "!", "[", "C", "D", "A", "T", "A", "[">>
CdataClose == <<"]", "]", ">">>
XmlDecl == <<"<", "?", "x", "m", "l">>
PiOpen == <<"<", "?">>
JavascriptProtocol == <<"j", "a", "v", "a", "s", "c", "r", "i", "p", "t", ":">>
DataProtocol == <<"d", "a", "t", "a", ":">>

\* pattern.source of each entry of dangerousPatterns, in the array's order
dangerousPatterns == <<
  "<!(?:DOCTYPE|ENTITY)", "<!-{2,}", "<!\\[CDATA\\[", "\\]\\]>",
  "<\\?xml", "<script[^>]*>", "javascript:", "data:" >>

\* dangerousPatterns[k].test(input)
PatternTest(k, input) ==
  CASE k = 1 -> ContainsCI(input, Doctype) \/ ContainsCI(input, EntityDecl)
    [] k = 2 -> Contains(input, CommentOpen)
    [] k = 3 -> ContainsCI(input, CdataOpen)
    [] k = 4 -> Contains(input, CdataClose)
    [] k = 5 -> ContainsCI(input, XmlDecl)
    [] k = 6 -> \E i \in 1..Len(input) :
                  /\ MatchAtCI(input, i, ScriptOpen)
                  /\ HasFrom(input, i + Len(ScriptOpen), ">")
    [] k = 7 -> ContainsCI(input, JavascriptProtocol)
    [] k = 8 -> ContainsCI(input, DataProtocol)

validateXmlInput(input) ==
  IF \E k \in 1..Len(dangerousPatterns) : PatternTest(k, input)
  THEN LET k == CHOOSE k \in 1..Len(dangerousPatterns) :
                  /\ PatternTest(k, input)
                  /\ \A j \in 1..(k - 1) : ~PatternTest(j, input)
       IN [isValid |-> FALSE, reason |-> dangerousPatterns[k]]
  ELSE [isValid |-> TRUE, reason |-> ""]

\* the first position at or after i where pat occurs, 0 when there is none
FirstMatchFrom(s, i, pat) ==
  IF \E j \in i..Len(s) : MatchAt(s, j, pat)
  THEN CHOOSE j \in i..Len(s) :
         MatchAt(s, j, pat) /\ \A k \in i..(j - 1) : ~MatchAt(s, k, pat)
  ELSE 0

\* open [^>]* \?>  at position i: [^>]* cannot pass a ">", so the first ">"
\* behind the opening must be the one that follows a "?"
DeclMatchLen(s, i, open, ci) ==
  IF (IF ci THEN MatchAtCI(s, i, open) ELSE MatchAt(s, i, open))
     /\ HasFrom(s, i + Len(open), ">")
  THEN LET j == FirstFrom(s, i + Len(open), ">")
       IN IF j - 1 >= i + Len(open) /\ s[j - 1] = "?" THEN j - i + 1 ELSE 0
  ELSE 0

\* /<!DOCTYPE[^>]*>/gi at position i
DoctypeMatchLen(s, i) ==
  IF MatchAtCI(s, i, Doctype) /\ HasFrom(s, i + Len(Doctype), ">")
  THEN FirstFrom(s, i + Len(Doctype), ">") - i + 1
  ELSE 0

\* open [\s\S]*? close  at position i
LazyMatchLen(s, i, open, close) ==
  IF MatchAt(s, i, open) /\ FirstMatchFrom(s, i + Len(open), close) > 0
  THEN FirstMatchFrom(s, i + Len(open), close) + Len(close) - i
  ELSE 0

\* the replace calls of sanitizeXmlInput, in order
RemoveXmlDeclarations(s) ==   \* /<\?xml[^>]*\?>/gi
  Remove(s, [i \in 1..Len(s) |-> DeclMatchLen(s, i, XmlDecl, TRUE)])
RemoveDoctypes(s) ==          \* /<!DOCTYPE[^>]*>/gi
  Remove(s, [i \in 1..Len(s) |-> DoctypeMatchLen(s, i)])
RemoveXmlComments(s) ==       \* /<!--[\s\S]*?-->/g
  Remove(s, [i \in 1..Len(s) |-> LazyMatchLen(s, i, CommentOpen, CommentClose)])
UnwrapCdata(s) ==             \* /<!\[CDATA\[([\s\S]*?)\]\]>/g replaced by '$1'
  ReplaceAll(s,
    [i \in 1..Len(s) |-> LazyMatchLen(s, i, CdataOpen, CdataClose)],
    [i \in 1..Len(s) |->
       IF LazyMatchLen(s, i, CdataOpen, CdataClose) = 0 THEN <<>>
       ELSE SubSeq(s, i + Len(CdataOpen),
                   i + LazyMatchLen(s, i, CdataOpen, CdataClose) - Len(CdataClose) - 1)])
RemoveProcessingInstructions(s) ==   \* /<\?[^>]*\?>/g
  Remove(s, [i \in 1..Len(s) |-> DeclMatchLen(s, i, PiOpen, FALSE)])

ApplySanitization(input) ==
  Only({RemoveProcessingInstructions(d) :
          d \in {UnwrapCdata(c) :
                   c \in {RemoveXmlComments(b) :
                            b \in {RemoveDoctypes(a) :
                                     a \in {RemoveXmlDeclarations(input)}}}}})

\* sanitizeXmlInput without the validation in front
sanitizeXmlInput_NoValidation(input) ==
  [thrown |-> FALSE, error |-> NoResult, value |-> ApplySanitization(input)]

sanitizeXmlInput(input) ==
  Only({IF ~validation.isValid
        THEN [thrown |-> TRUE,
              error |-> Thrown("XML security validation failed: Potentially dangerous XML pattern detected: ",
                               validation.reason),
              value |-> <<>>]
        ELSE [thrown |-> FALSE, error |-> NoResult, value |-> ApplySanitization(input)] :
          validation \in {validateXmlInput(input)}})

\* [\x00-\x08\x0B\x0C\x0E-\x1F\x7F]
ControlChars ==
  {"U+0", "U+1", "U+2", "U+3", "U+4", "U+5", "U+6", "U+7", "U+8", "U+11", "\f",
   "U+14", "U+15", "U+16", "U+17", "U+18", "U+19", "U+20", "U+21", "U+22",
   "U+23", "U+24", "U+25", "U+26", "U+27", "U+28", "U+29", "U+30", "U+31",
   "U+127"}

RemoveControlChars(s) ==
  Remove(s, [i \in 1..Len(s) |-> IF s[i] \in ControlChars THEN 1 ELSE 0])

escapeXmlContent(s) ==
  Only({RemoveControlChars(e) :
    e \in {ReplaceChar(d, "'", <<"&", "a", "p", "o", "s", ";">>) :
      d \in {ReplaceChar(c, "\"", <<"&", "q", "u", "o", "t", ";">>) :
        c \in {ReplaceChar(b, ">", <<"&", "g", "t", ";">>) :
          b \in {ReplaceChar(a, "<", <<"&", "l", "t", ";">>) :
            a \in {ReplaceChar(s, "&", <<"&", "a", "m", "p", ";">>)}}}}}})

----------------------------------------------------------------------------
(* hexToFcpxmlColor.  A channel is a double: the byte divided by 255.  Its   *)
(* text is Number.prototype.toString, the shortest decimal that reads back   *)
(* as the same double.  Whole numbers too wide for an integer are bit        *)
(* sequences, as in millisecondsToFraction.                                   *)

ByteMax == 255
NaN == [nan |-> TRUE, mant |-> <<>>, frac |-> 0]
Zero == [nan |-> FALSE, mant |-> <<>>, frac |-> 0]

\* a and b as whole numbers: -1 when a < b, 0 when equal, 1 when a > b
CompareBits(a, b) ==
  LET x == StripZeros(a)
      y == StripZeros(b)
  IN IF Len(x) # Len(y) THEN (IF Len(x) < Len(y) THEN -1 ELSE 1)
     ELSE IF x = y THEN 0
     ELSE LET i == CHOOSE i \in 1..Len(x) :
                     x[i] # y[i] /\ \A j \in 1..(i - 1) : x[j] = y[j]
          IN IF x[i] < y[i] THEN -1 ELSE 1

\* a - b for a >= b, both of one width, 16 bits at a time from the low end
RECURSIVE SubBits(_, _, _)
SubBits(a, b, borrow) ==
  IF a = <<>> THEN <<>>
  ELSE LET n == Len(a)
           w == IF n < 16 THEN n ELSE 16
           t == BitsToInt(SubSeq(a, n - w + 1, n), 0)
                  - BitsToInt(SubSeq(b, n - w + 1, n), 0) - borrow
       IN SubBits(SubSeq(a, 1, n - w), SubSeq(b, 1, n - w), IF t < 0 THEN 1 ELSE 0)
            \o PadBits(IntBits(IF t < 0 THEN t + 2 ^ w ELSE t), w)

\* |a - b|
Distance(a, b) ==
  LET w == IF Len(a) > Len(b) THEN Len(a) ELSE Len(b)
      x == PadBits(a, w)
      y == PadBits(b, w)
  IN IF CompareBits(x, y) >= 0 THEN SubBits(x, y, 0) ELSE SubBits(y, x, 0)

\* bits divided by a small integer k, 16 bits at a time from the high end
RECURSIVE DivSmall(_, _, _)
DivSmall(bits, k, rem) ==
  IF bits = <<>> THEN [quot |-> <<>>, rem |-> rem]
  ELSE LET w == IF Len(bits) < 16 THEN Len(bits) ELSE 16
           t == rem * (2 ^ w) + BitsToInt(SubSeq(bits, 1, w), 0)
           rest == DivSmall(SubSeq(bits, w + 1, Len(bits)), k, t % k)
       IN [quot |-> PadBits(IntBits(t \div k), w) \o rest.quot, rem |-> rest.rem]

\* decimal digits of a whole number (empty for 0)
RECURSIVE DecimalDigits(_)
DecimalDigits(bits) ==
  IF StripZeros(bits) = <<>> THEN <<>>
  ELSE LET d == DivSmall(StripZeros(bits), 10, 0)
       IN Append(DecimalDigits(d.quot), Digits[d.rem + 1])

\* the whole number nearest to bits / 2^frac
RoundShift(bits, frac) ==
  LET p == PadBits(bits, frac + 1)
      kept == SubSeq(p, 1, Len(p) - frac)
  IN IF frac > 0 /\ p[Len(p) - frac + 1] = 1 THEN Increment(kept) ELSE kept

\* bits * 5^k, at most six factors of 5 at a time
RECURSIVE TimesFive(_, _)
TimesFive(bits, k) ==
  IF k <= 6 THEN MulSmall(bits, 5 ^ k, 0)
  ELSE Only({TimesFive(b, k - 6) : b \in {MulSmall(bits, 5 ^ 6, 0)}})

\* bits * 10^k
TimesTen(bits, k) == TimesFive(bits, k) \o [j \in 1..k |-> 0]

\* the whole number d nearest to mant * 2^(-frac) * 10^k
NearestDecimal(mant, frac, k) == RoundShift(TimesTen(mant, k), frac)

\* d / 10^k reads back as the double mant * 2^(-frac), mant of MantissaBits
\* bits: it is less than half a unit of the last bit away (or exactly half,
\* mant even)
ReadsBack(d, k, mant, frac) ==
  \E c \in {CompareBits(Distance(d \o [j \in 1..frac |-> 0], TimesTen(mant, k)) \o <<0>>,
                         TimesTen(<<1>>, k))} :
    c < 0 \/ (c = 0 /\ mant[Len(mant)] = 0)

\* k decimal places are enough to read back as the double
Enough(mant, frac, k) ==
  \E d \in {NearestDecimal(mant, frac, k)} : ReadsBack(d, k, mant, frac)

\* a double has at most 17 significant digits, and 0.000001 <= x
MaxPlaces == 23

\* the fewest decimal places that are enough, and the digits at that many places
ShortestDecimal(mant, frac) ==
  LET k == CHOOSE k \in 1..MaxPlaces :
             Enough(mant, frac, k) /\ \A j \in 1..(k - 1) : ~Enough(mant, frac, j)
  IN [digits |-> DecimalDigits(NearestDecimal(mant, frac, k)), places |-> k]

\* Number.prototype.toString of a double x, 0.000001 <= x < 1, not a power of two
DoubleToString(x) ==
  LET pad == MantissaBits - Len(x.mant)
  IN Only({<<"0", ".">> \o [j \in 1..(s.places - Len(s.digits)) |-> "0"] \o s.digits :
             s \in {ShortestDecimal(x.mant \o [j \in 1..pad |-> 0], x.frac + pad)}})

\* x === 1
IsOne(x) ==
  /\ ~x.nan
  /\ x.mant # <<>>
  /\ x.mant[1] = 1
  /\ \A j \in 2..Len(x.mant) : x.mant[j] = 0
  /\ x.frac = Len(x.mant) - 1

\* parseInt(s, 16) of a piece of at most two characters: the value of its
\* leading hex digits, NaN (-1) when it has none
parseIntHex(s) ==
  IF s = <<>> \/ ~IsHexDigit(s[1]) THEN -1
  ELSE IF Len(s) >= 2 /\ IsHexDigit(s[2]) THEN ParseDigits(SubSeq(s, 1, 2), 16, 0)
  ELSE ParseDigits(SubSeq(s, 1, 1), 16, 0)

\* clean.substring(from, to), from and to counted from 0
Substring(s, from, to) ==
  SubSeq(s, (IF from > Len(s) THEN Len(s) ELSE from) + 1,
            IF to > Len(s) THEN Len(s) ELSE to)

\* Channel dividing by 256
Channel_DividedBy256(clean, from, to) ==
  LET n == parseIntHex(Substring(clean, from, to))
  IN IF n = -1 THEN NaN
     ELSE IF n = 0 THEN Zero
     ELSE [nan |-> FALSE] @@ DoubleDivide(n, ByteMax + 1)

\* parseInt(clean.substring(from, to), 16) / 255
Channel(clean, from, to) ==
  LET n == parseIntHex(Substring(clean, from, to))
  IN IF n = -1 THEN NaN
     ELSE IF n = 0 THEN Zero
     ELSE [nan |-> FALSE] @@ DoubleDivide(n, ByteMax)

formatValue(v) ==
  IF v.nan THEN <<"N", "a", "N">>
  ELSE IF v = Zero THEN <<"0">>
  ELSE IF IsOne(v) THEN <<"1">>
  ELSE DoubleToString(v)

One == [nan |-> FALSE, mant |-> <<1>>, frac |-> 0]

hexToFcpxmlColor(h) ==
  LET clean == IF h # <<>> /\ h[1] = "#" THEN Tail(h) ELSE h
  IN Only({r \o <<" ">> \o g \o <<" ">> \o b \o <<" ">> \o a :
             r \in {formatValue(Channel(clean, 0, 2))},
             g \in {formatValue(Channel(clean, 2, 4))},
             b \in {formatValue(Channel(clean, 4, 6))},
             a \in {formatValue(IF Len(clean) = 8 THEN Channel(clean, 6, 8) ELSE One)}})

----------------------------------------------------------------------------
(* buildTitleXml, buildFcpxml, buildTitleFromTemplate, buildFcpxmlFromTemplate. *)
(* A title is the record of the values put into its element or template.        *)

DisplayNameLen == 20
DefaultFrameRate == 24

NoTitle == [name |-> <<>>, offset |-> <<>>, start |-> <<>>, duration |-> <<>>,
            styleId |-> <<>>, text |-> <<>>, style |-> <<>>, xml |-> <<>>]

\* DisplayName without the '...'
DisplayName_NoEllipsis(s) ==
  ReplaceChar(SubSeq(s, 1, IF Len(s) < DisplayNameLen THEN Len(s) ELSE DisplayNameLen),
              "\n", <<" ">>)

\* text.substring(0, 20).replace(/\n/g, ' '), with '...' when text is longer
DisplayName(s) ==
  LET titlePreview == ReplaceChar(SubSeq(s, 1, IF Len(s) < DisplayNameLen
                                                THEN Len(s) ELSE DisplayNameLen),
                                  "\n", <<" ">>)
  IN IF Len(s) > DisplayNameLen THEN titlePreview \o <<".", ".", ".">>
     ELSE titlePreview

\* the values of a title; start is the offset
TitleOf(index, offset, duration, escaped) ==
  [name |-> DisplayName(escaped),
   offset |-> offset,
   start |-> offset,
   duration |-> duration,
   styleId |-> <<"t", "s">> \o ToDigits(index + 1, 10),
   text |-> escaped,
   style |-> <<>>,
   xml |-> <<>>]

\* DEFAULT_OPTIONS
DefaultWidth == 1920
DefaultHeight == 1080
DefaultFontSize == 72
DEFAULT_OPTIONS ==
  [titleName |-> <<"C", "o", "n", "v", "e", "r", "t", "e", "d", " ",
                      "f", "r", "o", "m", " ", "S", "R", "T">>,
   formatVersion |-> <<"1", ".", "8">>,
   frameRate |-> DefaultFrameRate,
   width |-> DefaultWidth,
   height |-> DefaultHeight,
   fontFamily |-> <<"H", "e", "l", "v", "e", "t", "i", "c", "a">>,
   fontSize |-> DefaultFontSize,
   fontFace |-> <<"R", "e", "g", "u", "l", "a", "r">>,
   textColor |-> <<"#", "F", "F", "F", "F", "F", "F", "F", "F">>,
   backgroundColor |-> <<"#", "0", "0", "0", "0", "0", "0", "0", "0">>,
   strokeColor |-> <<"#", "0", "0", "0", "0", "0", "0", "F", "F">>,
   strokeWidth |-> 0,
   lineSpacing |-> 1]

\* { ...DEFAULT_OPTIONS, ...options }: a field of options replaces the default
MergeOptions(given) == [k \in DOMAIN DEFAULT_OPTIONS |->
                          IF k \in DOMAIN given THEN given[k] ELSE DEFAULT_OPTIONS[k]]

\* [\x00-\x08\x0B\x0C\x0E-\x1F\x7F-\x9F]
AttributeControlChars == ControlChars \cup {FromCodePoint(n) : n \in 128..159}
\* [\uD800-\uDFFF]
Surrogates == {FromCodePoint(n) : n \in SurrogateLow..SurrogateHigh}
\* the two code points after U+65533
NonCharacters == {FromCodePoint(65534), FromCodePoint(65535)}

RemoveChars(s, set) == Remove(s, [i \in 1..Len(s) |-> IF s[i] \in set THEN 1 ELSE 0])

escapeXmlAttribute(s) ==
  Only({RemoveChars(RemoveChars(RemoveChars(g, AttributeControlChars), Surrogates),
                    NonCharacters) :
    g \in {ReplaceChar(f, "\t", <<"&", "#", "9", ";">>) :
      f \in {ReplaceChar(e, "\r", <<"&", "#", "1", "3", ";">>) :
        e \in {ReplaceChar(d, "\n", <<"&", "#", "1", "0", ";">>) :
          d \in {ReplaceChar(c, "\"", <<"&", "q", "u", "o", "t", ";">>) :
            c \in {ReplaceChar(b, ">", <<"&", "g", "t", ";">>) :
              b \in {ReplaceChar(a, "<", <<"&", "l", "t", ";">>) :
                a \in {ReplaceChar(s, "&", <<"&", "a", "m", "p", ";">>)}}}}}}}})

\* /^[a-zA-Z_][\w.-]*$/
IsAttributeName(key) ==
  /\ key # <<>>
  /\ IsIn(key[1], Upper) \/ IsIn(key[1], Lower) \/ key[1] = "_"
  /\ \A i \in 2..Len(key) : IsWordChar(key[i]) \/ key[i] \in {".", "-"}

\* String(value) of a whole number: its decimal digits
NumberString(value) ==
  IF value < 0 THEN <<"-">> \o ToDigits(0 - value, 10) ELSE ToDigits(value, 10)

\* String(value): a string is itself; typeof tells which it is
String(value, typeof) == IF typeof = "number" THEN NumberString(value) ELSE value

\* attrs is the sequence of the object's entries, [key, value, typeof]; the result
\* is the sequence of [key, value] with each value escaped, or the throw for
\* the first key that is no attribute name
buildAttributes(attrs) ==
  IF \E i \in 1..Len(attrs) : ~IsAttributeName(attrs[i].key)
  THEN [thrown |-> TRUE,
        error |-> Thrown("Invalid XML attribute name: ",
                         attrs[CHOOSE i \in 1..Len(attrs) :
                                 /\ ~IsAttributeName(attrs[i].key)
                                 /\ \A j \in 1..(i - 1) : IsAttributeName(attrs[j].key)].key),
        value |-> <<>>]
  ELSE [thrown |-> FALSE, error |-> NoResult,
        value |-> [i \in 1..Len(attrs) |->
                     [key |-> attrs[i].key,
                      value |-> escapeXmlAttribute(String(attrs[i].value, attrs[i].typeof))]]]

\* attrs of buildTitleXml: the stroke entries only when strokeWidth is not 0
TextStyleEntries(opts, textColor, backgroundColor, strokeColor) ==
  <<[key |-> <<"f", "o", "n", "t">>, value |-> opts.fontFamily, typeof |-> "string"],
    [key |-> <<"f", "o", "n", "t", "S", "i", "z", "e">>, value |-> opts.fontSize, typeof |-> "number"],
    [key |-> <<"f", "o", "n", "t", "F", "a", "c", "e">>, value |-> opts.fontFace, typeof |-> "string"],
    [key |-> <<"f", "o", "n", "t", "C", "o", "l", "o", "r">>, value |-> textColor, typeof |-> "string"],
    [key |-> <<"b", "a", "c", "k", "g", "r", "o", "u", "n", "d", "C", "o",
              "l", "o", "r">>, value |-> backgroundColor, typeof |-> "string"],
    [key |-> <<"a", "l", "i", "g", "n", "m", "e", "n", "t">>, value |-> <<"c", "e", "n", "t", "e", "r">>, typeof |-> "string"]>>
  \o (IF opts.strokeWidth # 0
      THEN <<[key |-> <<"s", "t", "r", "o", "k", "e", "C", "o", "l", "o", "r">>, value |-> strokeColor, typeof |-> "string"],
             [key |-> <<"s", "t", "r", "o", "k", "e", "W", "i", "d", "t", "h">>, value |-> opts.strokeWidth, typeof |-> "number"]>>
      ELSE <<>>)

\* what buildTitleXml and buildTitleFromTemplate compute from a cue; index is
\* the position cues.map passes, counted from 0
TitleValues(cue, index, rate) ==
  Only({IF sanitizedText.thrown
        THEN [thrown |-> TRUE, error |-> sanitizedText.error, title |-> NoTitle]
        ELSE [thrown |-> FALSE, error |-> NoResult,
              title |-> Only({TitleOf(index, offset, duration, escaped) :
                                offset \in {millisecondsToFraction(cue.startMs, rate)},
                                duration \in {millisecondsToFraction(
                                                cue.endMs - cue.startMs, rate)},
                                escaped \in {escapeXmlContent(cleanText) :
                                  cleanText \in {stripHtmlTags(sanitizedText.value)}}})] :
          sanitizedText \in {sanitizeXmlInput(cue.text)}})

\* the values go into the placeholders of the title template
buildTitleFromTemplate(cue, index, rate) == TitleValues(cue, index, rate)

\* `${key}="${escapedValue}"` of every entry of attrs, joined by ' '
AttributeString(attrs) ==
  Join([i \in 1..Len(attrs) |->
          attrs[i].key \o <<"=", "\"">> \o attrs[i].value \o <<"\"">>], <<" ">>)

\* s.replace(new RegExp(pat, 'g'), r) for a pattern of literal characters
ReplaceLiteral(s, pat, r) ==
  ReplaceAll(s, [i \in 1..Len(s) |-> IF MatchAt(s, i, pat) THEN Len(pat) ELSE 0],
                [i \in 1..Len(s) |-> r])

\* lines.trim().split('\n').map((line) => pad + line).join('\n')
indent(lines, level) ==
  LET pad == [j \in 1..(2 * level) |-> " "]
      trimmed == Trim(lines)
      parts == Split(trimmed, [i \in 1..Len(trimmed) |->
                                 IF trimmed[i] = "\n" THEN 1 ELSE 0])
  IN Join([k \in 1..Len(parts) |-> pad \o parts[k]], <<"\n">>)

NEWLINE_PLACEHOLDER == <<"_", "_", "_", "N", "E", "W", "L", "I", "N", "E", "_", "_", "_">>
SpineLevel == 6

\* text.replace(/\n/g, NEWLINE_PLACEHOLDER)
TextWithPlaceholder(escaped) == ReplaceChar(escaped, "\n", NEWLINE_PLACEHOLDER)

\* the template literal of buildTitleXml with the values of the title in it
TitleLiteral(title) ==
  <<"\n", "<", "t", "i", "t", "l", "e", " ", "n", "a", "m", "e", "=",
      "\"", "B", "a", "s", "i", "c", " ", "T", "i", "t", "l", "e", ":", " ">>
    \o title.name \o <<"\"", " ", "o", "f", "f", "s", "e", "t", "=", "\"">>
    \o title.offset \o <<"\"", " ", "r", "e", "f", "=", "\"", "r", "2", "\"", " ", "d", "u",
      "r", "a", "t", "i", "o", "n", "=", "\"">>
    \o title.duration \o <<"\"", " ", "s", "t", "a", "r", "t", "=", "\"">>
    \o title.start \o <<"\"", ">", "\n">>
    \o <<" ", " ", "<", "t", "e", "x", "t", ">", "\n">>
    \o <<" ", " ", " ", " ", "<", "t", "e", "x", "t", "-", "s", "t", "y", "l",
      "e", " ", "r", "e", "f", "=", "\"">>
    \o title.styleId \o <<"\"", ">">> \o TextWithPlaceholder(title.text)
    \o <<"<", "/", "t", "e", "x", "t", "-", "s", "t", "y", "l", "e", ">", "\n">>
    \o <<" ", " ", "<", "/", "t", "e", "x", "t", ">", "\n">>
    \o <<" ", " ", "<", "t", "e", "x", "t", "-", "s", "t", "y", "l", "e", "-",
      "d", "e", "f", " ", "i", "d", "=", "\"">>
    \o title.styleId \o <<"\"", ">", "\n">>
    \o <<" ", " ", " ", " ", "<", "t", "e", "x", "t", "-", "s", "t", "y", "l",
      "e", " ">>
    \o AttributeString(title.style) \o <<"/", ">", "\n">>
    \o <<" ", " ", "<", "/", "t", "e", "x", "t", "-", "s", "t", "y", "l", "e",
      "-", "d", "e", "f", ">", "\n">>
    \o <<"<", "/", "t", "i", "t", "l", "e", ">">>

\* the element buildTitleXml returns: the literal indented for the spine, then
\* every placeholder turned into a line break
TitleXml(title) ==
  ReplaceLiteral(indent(TitleLiteral(title), SpineLevel), NEWLINE_PLACEHOLDER, <<"\n">>)

\* the values go into the title element, with the attributes of its text style
buildTitleXml(cue, index, rate, opts, textColor, backgroundColor, strokeColor) ==
  Only({IF t.thrown THEN t
        ELSE Only({IF a.thrown
                   THEN [thrown |-> TRUE, error |-> a.error, title |-> NoTitle]
                   ELSE [thrown |-> FALSE, error |-> NoResult,
                         title |-> Only({[styled EXCEPT !.xml = TitleXml(styled)] :
                                           styled \in {[t.title EXCEPT
                                                          !.style = a.value]}})] :
                     a \in {buildAttributes(TextStyleEntries(
                              opts, textColor, backgroundColor, strokeColor))}}) :
          t \in {TitleValues(cue, index, rate)}})

\* cues.map((cue, index) => buildTitleFromTemplate(...)): the titles built
\* before the first throw, and the error if one was thrown
RECURSIVE MapTitles(_, _, _)
MapTitles(list, rate, built) ==
  IF Len(built) = Len(list) THEN [thrown |-> FALSE, error |-> NoResult, titles |-> built]
  ELSE Only({IF r.thrown THEN [thrown |-> TRUE, error |-> r.error, titles |-> built]
             ELSE MapTitles(list, rate, Append(built, r.title)) :
               r \in {buildTitleFromTemplate(list[Len(built) + 1], Len(built), rate)}})

buildFcpxmlFromTemplate(list, rate) == MapTitles(list, rate, <<>>)

\* the replacement text String.prototype.replace puts for one match of a pattern
\* without groups: $$ is '$', $& the match, $` what stands before the match,
\* $' what stands after it; every other character stands for itself ("U+96"
\* is the grave accent)
RECURSIVE GetSubstitution(_, _, _, _)
GetSubstitution(matched, before, after, replacement) ==
  IF ~\E i \in 1..(Len(replacement) - 1) : replacement[i] = "$" THEN replacement
  ELSE LET i == CHOOSE i \in 1..(Len(replacement) - 1) :
                  replacement[i] = "$" /\ \A h \in 1..(i - 1) : replacement[h] # "$"
           c == replacement[i + 1]
           special == c \in {"$", "&", "U+96", "'"}
           put == IF c = "$" THEN <<"$">>
                  ELSE IF c = "&" THEN matched
                  ELSE IF c = "U+96" THEN before
                  ELSE IF c = "'" THEN after
                  ELSE <<"$">>
       IN SubSeq(replacement, 1, i - 1) \o put
            \o GetSubstitution(matched, before, after,
                               SubSeq(replacement, IF special THEN i + 2 ELSE i + 1,
                                      Len(replacement)))

\* the replacement is put as it is
ReplacePlaceholder_Literally(s, token, replacement) ==
  ReplaceAll(s, [i \in 1..Len(s) |-> IF MatchAt(s, i, token) THEN Len(token) ELSE 0],
                [i \in 1..Len(s) |-> replacement])

\* s.replace(/{NAME}/g, replacement) for the token '{NAME}'
ReplacePlaceholder(s, token, replacement) ==
  ReplaceAll(s, [i \in 1..Len(s) |-> IF MatchAt(s, i, token) THEN Len(token) ELSE 0],
                [i \in 1..Len(s) |->
                   GetSubstitution(token, SubSeq(s, 1, i - 1),
                                   SubSeq(s, i + Len(token), Len(s)), replacement)])

OFFSET == <<"{", "O", "F", "F", "S", "E", "T", "}">>
START == <<"{", "S", "T", "A", "R", "T", "}">>
DURATION == <<"{", "D", "U", "R", "A", "T", "I", "O", "N", "}">>
DISPLAY_NAME == <<"{", "D", "I", "S", "P", "L", "A", "Y", "_", "N", "A", "M", "E", "}">>
STYLE_ID == <<"{", "S", "T", "Y", "L", "E", "_", "I", "D", "}">>
TEXT == <<"{", "T", "E", "X", "T", "}">>
SEQUENCE_DURATION == <<"{", "S", "E", "Q", "U", "E", "N", "C", "E", "_", "D", "U", "R", "A",
      "T", "I", "O", "N", "}">>
TITLES == <<"{", "T", "I", "T", "L", "E", "S", "}">>

\* the chain of replace calls of buildTitleFromTemplate on the values of a title
FillTitleTemplate(titleTemplate, title) ==
  ReplacePlaceholder(
    ReplacePlaceholder(
      ReplacePlaceholder(
        ReplacePlaceholder(
          ReplacePlaceholder(
            ReplacePlaceholder(titleTemplate, OFFSET, title.offset),
            START, title.start),
          DURATION, title.duration),
        DISPLAY_NAME, title.name),
      STYLE_ID, title.styleId),
    TEXT, title.text)

\* the two replace calls of buildFcpxmlFromTemplate; titlesXml is the titles
\* joined by '\n'
FillBaseTemplate(baseTemplate, totalDuration, titlesXml) ==
  ReplacePlaceholder(ReplacePlaceholder(baseTemplate, SEQUENCE_DURATION, totalDuration),
                     TITLES, titlesXml)

----------------------------------------------------------------------------
(* Spec: convertSrtToFcpxml on a subtitle file.  parseSrt runs its for loop *)
(* one block at a time, then the cues go to buildFcpxmlFromTemplate.        *)

\* pad(num, length)
Pad(num, length) ==
  LET digits == ToDigits(num, 10)
  IN [k \in 1..(length - Len(digits)) |-> "0"] \o digits

\* HH:MM:SS,mmm of the fields t = <<hours, minutes, seconds, milliseconds>>
Stamp(t) ==
  Pad(t[1], 2) \o <<":">> \o Pad(t[2], 2) \o <<":">> \o Pad(t[3], 2)
    \o <<",">> \o Pad(t[4], 3)

TimingLine(from, to, gap) == Stamp(from) \o gap \o Arrow \o gap \o Stamp(to)

\* index line, timing line, text lines
Block(n, from, to, textLines) ==
  <<NumberToString(n), TimingLine(from, to, <<" ">>)>> \o textLines

Stamps == {<<0, 0, 1, 0>>, <<0, 0, 2, 500>>, <<1, 2, 3, 4>>, <<99, 59, 59, 999>>}

TimedBlocks ==
  {Block(n, from, to, <<<<"H", "i">>>>) : n \in {1, 42}, from \in Stamps, to \in Stamps}

GoodBlock == Block(1, <<0, 0, 1, 0>>, <<0, 0, 2, 500>>, <<<<"H", "i">>>>)

\* index with spaces around it, no space around the arrow, tags in the text,
\* a line of spaces between the text lines
PaddedBlock ==
  << <<" ", "7", " ">>, TimingLine(<<1, 2, 3, 4>>, <<1, 2, 4, 0>>, <<>>),
     <<"<", "b", ">", "A", "<", "/", "b", ">">>, <<" ">>, <<"B">> >>

BlankBlock == << <<" ">> >>
IncompleteBlock == << <<"4">> >>
BadIndexBlock ==
  << <<"x">>, TimingLine(<<0, 0, 2, 0>>, <<0, 0, 1, 0>>, <<" ">>), <<"t">> >>
BadTimecodeBlock == << <<"5">>, <<"1", " ", "-", ">", " ", "2">>, <<"t">> >>
NoTextBlock == Block(6, <<0, 0, 1, 0>>, <<0, 0, 2, 0>>, <<>>)
DataBlock == Block(8, <<0, 0, 1, 0>>, <<0, 0, 2, 0>>, <<DataProtocol>>)
MarkupOnlyBlock ==
  Block(9, <<0, 0, 1, 0>>, <<0, 0, 2, 0>>, <<<<"<", "i", ">", "<", "/", "i", ">">>>>)
\* text lines with a run of three spaces, a tab, and spaces at their ends
SpacedBlock ==
  Block(12, <<0, 0, 1, 0>>, <<0, 0, 2, 0>>,
        <<<<"a", " ", " ", " ", "b", " ">>, <<" ", "c", "\t", "d", " ">>>>)
\* first lines that start with digits but are no integer >= 1
ZeroIndexBlock == << <<"0">>, TimingLine(<<0, 0, 1, 0>>, <<0, 0, 2, 0>>, <<" ">>), <<"t">> >>
NegativeIndexBlock ==
  << <<"-", "3">>, TimingLine(<<0, 0, 1, 0>>, <<0, 0, 2, 0>>, <<" ">>), <<"t">> >>
OrdinalIndexBlock ==
  << <<"2", "n", "d">>, TimingLine(<<0, 0, 1, 0>>, <<0, 0, 2, 0>>, <<" ">>), <<"t">> >>
\* texts with an escaped ampersand before the rest of a reference
TwiceEscapedBlock ==
  Block(10, <<0, 0, 1, 0>>, <<0, 0, 2, 0>>,
        <<<<"&", "a", "m", "p", ";", "a", "m", "p", ";">>>>)
EscapedReferenceBlock ==
  Block(11, <<0, 0, 1, 0>>, <<0, 0, 2, 0>>,
        <<<<"x", " ", "&", "a", "m", "p", ";", "l", "t", ";">>,
          <<"&", "#", "6", "5", ";", "<", "b", ">", "y", "<", "/", "b", ">">>>>)

\* cues shown for one millisecond and for 41, less than a frame at 24 frames
\* per second, and for 42, one frame
MinimumBlock == Block(1, <<0, 0, 0, 1>>, <<0, 0, 0, 2>>, <<<<"H", "i">>>>)
SubFrameBlock == Block(2, <<0, 0, 1, 0>>, <<0, 0, 1, 41>>, <<<<"H", "i">>>>)
OneFrameBlock == Block(3, <<0, 0, 2, 0>>, <<0, 0, 2, 42>>, <<<<"H", "i">>>>)

CoreBlocks == {GoodBlock, PaddedBlock, IncompleteBlock, BadIndexBlock, NoTextBlock}

MaxBlocks == 3

EndOfLines == {<<"\n">>, <<"\r", "\n">>, <<"\r">>}

Documents ==
  {[eol |-> e, blocks |-> bs] :
     e \in EndOfLines,
     bs \in SeqsUpTo(CoreBlocks, MaxBlocks)
              \cup {<<b>> : b \in TimedBlocks}
              \cup {<<BlankBlock>>, <<GoodBlock, BlankBlock, PaddedBlock>>,
                    <<BadTimecodeBlock>>, <<GoodBlock, BadTimecodeBlock, PaddedBlock>>,
                    <<DataBlock>>, <<GoodBlock, DataBlock>>, <<DataBlock, GoodBlock>>,
                    <<MarkupOnlyBlock>>, <<GoodBlock, MarkupOnlyBlock, NoTextBlock>>,
                    <<TwiceEscapedBlock>>, <<EscapedReferenceBlock, TwiceEscapedBlock>>,
                    <<ZeroIndexBlock>>, <<NegativeIndexBlock>>,
                    <<GoodBlock, OrdinalIndexBlock, BadIndexBlock>>,
                    <<SpacedBlock>>, <<GoodBlock, SpacedBlock>>,
                    <<MinimumBlock>>, <<SubFrameBlock>>, <<OneFrameBlock>>,
                    <<MinimumBlock, SubFrameBlock, OneFrameBlock>>}}

\* the file's text: lines end a block's line, a blank line ends a block
Render(d) ==
  Join([i \in 1..Len(d.blocks) |-> Join(d.blocks[i], d.eol)], d.eol \o d.eol)

Init ==
  /\ pc = "split"
  /\ document \in Documents
  /\ source = Render(document)
  /\ blocks = <<>>
  /\ cues = <<>>
  /\ errors = <<>>
  /\ result = NoResult
  /\ frameRate = DefaultFrameRate
  /\ ms = 0 /\ fraction = <<>>
  /\ IdleSanitizer /\ IdleEmitter /\ IdleColor /\ IdleBuilder /\ IdleCli

SplitSource ==
  /\ pc = "split"
  /\ \E normalized \in {Normalize(source)} : blocks' = SplitBlocks(normalized)
  /\ pc' = "loop"
  /\ UNCHANGED <<document, source, cues, errors, result, sanitizerVars, codecVars,
                 emitterVars, colorVars, builderVars, cliVars>>

\* the for loop is at a block that takes the given branch
AtBlock(kind) ==
  /\ pc = "loop"
  /\ blocks # <<>>
  /\ BranchOf(Head(blocks)).kind = kind

\* one pass of the for loop
LoopBody ==
  /\ \E res \in {Accumulate([cues |-> cues, errors |-> errors], step) :
                    step \in {ProcessBlock(Head(blocks))}} :
       /\ cues' = res.cues
       /\ errors' = res.errors
  /\ blocks' = Tail(blocks)
  /\ UNCHANGED <<pc, document, source, result, sanitizerVars, codecVars, emitterVars,
                 colorVars, builderVars, cliVars>>

SkipIncompleteBlock == AtBlock("incomplete") /\ LoopBody
SkipInvalidIndex == AtBlock("invalid index") /\ LoopBody
SkipInvalidTimecode == AtBlock("invalid timecode") /\ LoopBody
SkipEndNotAfterStart == AtBlock("end not after start") /\ LoopBody
PushCue == AtBlock("cue") /\ LoopBody

ReturnParseResult ==
  /\ pc = "loop"
  /\ blocks = <<>>
  /\ pc' = "parsed"
  /\ UNCHANGED <<result, sanitizerVars, codecVars, parserVars, emitterVars,
                 colorVars, builderVars, cliVars>>

\* parseResult.cues.length === 0, asked of the errors instead
NoValidCues_AnyError(parseResult) == Len(parseResult.errors) > 0

NoValidCues(parseResult) == Len(parseResult.cues) = 0

ThrowNoValidCues ==
  /\ pc = "parsed"
  /\ NoValidCues([cues |-> cues, errors |-> errors])
  /\ result' = Thrown("No valid SRT cues found in input", "")
  /\ pc' = "thrown"
  /\ UNCHANGED <<sanitizerVars, codecVars, parserVars, emitterVars, colorVars,
                 builderVars, cliVars>>

BuildFromTemplate ==
  /\ pc = "parsed"
  /\ ~NoValidCues([cues |-> cues, errors |-> errors])
  /\ \E built \in {buildFcpxmlFromTemplate(cues, frameRate)} :
       /\ ~built.thrown
       /\ titles' = built.titles
  /\ cueList' = cues
  /\ result' = Returned
  /\ pc' = "done"
  /\ UNCHANGED <<sanitizerVars, codecVars, parserVars, colorVars, builderVars, cliVars>>

BuildFromTemplateThrows ==
  /\ pc = "parsed"
  /\ ~NoValidCues([cues |-> cues, errors |-> errors])
  /\ \E built \in {buildFcpxmlFromTemplate(cues, frameRate)} :
       /\ built.thrown
       /\ result' = built.error
  /\ cueList' = cues
  /\ pc' = "thrown"
  /\ UNCHANGED <<titles, sanitizerVars, codecVars, parserVars, colorVars,
                 builderVars, cliVars>>

Next ==
  \/ SplitSource
  \/ SkipIncompleteBlock \/ SkipInvalidIndex \/ SkipInvalidTimecode
  \/ SkipEndNotAfterStart \/ PushCue
  \/ ReturnParseResult
  \/ ThrowNoValidCues \/ BuildFromTemplate \/ BuildFromTemplateThrows

Spec == Init /\ [][Next]_vars

----------------------------------------------------------------------------
(* SpecBuild: buildFcpxml on a list of cues; cues.map builds one title per *)
(* step and a throw ends the call.                                         *)

\* one text for each pattern the validation rejects
DangerousTexts == {
  <<"a", " ">> \o Doctype \o <<" ", "x", ">">>,
  <<"<", "!", "e", "n", "t", "i", "t", "y", " ", "x">>,
  <<"x">> \o CommentOpen,
  CdataOpen \o <<"x">>,
  <<"x">> \o CdataClose,
  XmlDecl \o <<" ", "?", ">">>,
  <<"<", "S", "c", "r", "i", "p", "t", " ", "a", ">", "x">>,
  <<"J", "a", "v", "a", "S", "c", "r", "i", "p", "t", ":", "x">>,
  <<"a", " ">> \o DataProtocol \o <<"x">> }

SafeTexts == {
  <<"H", "e", "l", "l", "o">>,
  <<"<", "b", ">", "x", "<", "/", "b", ">", " ", "&", " ", "y">>,
  ScriptOpen \o <<" ", "d", "a", "t", "a">> }

MaxCues == 3
CueGapMs == 2000
CueLengthMs == 1500

\* cue k of a list shows its text for CueLengthMs, CueGapMs after cue k - 1 started
CueLists ==
  {[k \in 1..Len(ts) |-> [index |-> k, startMs |-> (k - 1) * CueGapMs,
                          endMs |-> (k - 1) * CueGapMs + CueLengthMs,
                          text |-> ts[k]]] :
     ts \in SeqsUpTo(DangerousTexts \cup SafeTexts, MaxCues)}

\* cues whose order in the list is not the order of their end times
TimedCues ==
  {[startMs |-> from, endMs |-> from + length, text |-> <<"H", "i">>] :
     from \in {0, 700}, length \in {580, 2500}}

TimedCueLists ==
  {[k \in 1..Len(cs) |-> [index |-> k, startMs |-> cs[k].startMs,
                          endMs |-> cs[k].endMs, text |-> cs[k].text]] :
     cs \in SeqsUpTo(TimedCues, MaxCues)}

\* option values a caller may pass: plain ones and ones holding markup characters
CallerOptions ==
  {[titleName |-> t, formatVersion |-> v, fontFamily |-> f, fontFace |-> w,
    strokeWidth |-> k] :
     t \in {<<"M", "y", " ", "F", "i", "l", "m">>, <<"A", " ", "&", " ", "B", " ", "<", "\"", "x", "\"", ">">>},
     v \in {<<"1", ".", "8">>, <<"1", ".", "8", "\"", ">", "<", "x", " ", "a", "=", "\"">>},
     f \in {<<"H", "e", "l", "v", "e", "t", "i", "c", "a">>, <<"M", "y", "\"", "F", "o", "n", "t">>},
     w \in {<<"B", "o", "l", "d">>, <<"B", "<", "d", ">", "&">>},
     k \in {0, 2}}

\* cue texts that hold markup characters and pass the validation
MarkupTexts == {
  <<"a", " ", "<", " ", "b", " ", "&", " ", "c", " ", ">", " ", "\"",
      "d", "\"", " ", "'", "e", "'">>,
  <<"a", "a", "a", "a", "a", "a", "a", "a", "a", "a", "a", "a", "a", "a",
      "a", "a", "a", "a", "&", "b">> }

\* cue texts of 20 characters, of 21, and of more with a line break in the
\* first 20; a short one of two lines
NameTexts == {
  <<"a", "b", "c", "d", "e", "f", "g", "h", "i", "j", "k", "l", "m", "n",
    "o", "p", "q", "r", "s", "t">>,
  <<"a", "b", "c", "d", "e", "f", "g", "h", "i", "j", "k", "l", "m", "n",
    "o", "p", "q", "r", "s", "t", "u">>,
  <<"L", "i", "n", "e", " ", "o", "n", "e", "\n", "L", "i", "n", "e", " ",
    "t", "w", "o", " ", "i", "s", " ", "l", "o", "n", "g">>,
  <<"H", "i", "\n", "y", "o", "u">> }

\* cue texts that hold the characters of NEWLINE_PLACEHOLDER, and texts of
\* several lines
PlaceholderTexts == {
  <<"a", "_", "_", "_", "N", "E", "W", "L", "I", "N", "E", "_", "_", "_",
    "b">>,
  <<"_", "_", "_", "N", "E", "W", "L", "I", "N", "E", "_", "_", "_">>,
  <<"L", "i", "n", "e", " ", "1", "\n", "L", "i", "n", "e", " ", "2", "\n",
    "L", "i", "n", "e", " ", "3">> }

\* one cue that starts and ends on a frame boundary of 50 frames per second
FramedCueLists ==
  {<<[index |-> 1, startMs |-> from, endMs |-> from + length, text |-> <<"H", "i">>]>> :
     from \in {0, 20, 40, 100}, length \in {480, 500, 560, 580}}

\* the calls of buildFcpxml: cues and options (no field when none is passed)
BuildCalls ==
  {[cues |-> list, options |-> <<>>] : list \in CueLists}
  \cup {[cues |-> list, options |-> [frameRate |-> rate]] :
          list \in TimedCueLists \cup FramedCueLists, rate \in {30, 50}}
  \cup {[cues |-> list, options |-> given] :
          list \in {<<>>} \cup {<<[index |-> 1, startMs |-> 0, endMs |-> CueLengthMs,
                                  text |-> m]>> : m \in MarkupTexts},
          given \in CallerOptions}
  \cup {[cues |-> <<[index |-> 1, startMs |-> 0, endMs |-> CueLengthMs, text |-> m]>>,
         options |-> <<>>] : m \in NameTexts \cup MarkupTexts \cup PlaceholderTexts}

\* MaxEndMs taking the end of the last cue
MaxEndMs_OfLastCue(list) == IF list = <<>> THEN 0 ELSE list[Len(list)].endMs

RECURSIVE MaxEndMs(_)
MaxEndMs(list) ==             \* cues.length > 0 ? Math.max(...cues.map((c) => c.endMs)) : 0
  IF list = <<>> THEN 0
  ELSE IF Len(list) = 1 THEN Head(list).endMs
  ELSE LET rest == MaxEndMs(Tail(list))
       IN IF Head(list).endMs > rest THEN Head(list).endMs ELSE rest

InitBuild ==
  /\ pc = "duration"
  /\ \E call \in BuildCalls :
       /\ cueList = call.cues
       /\ options = call.options
       /\ frameRate = MergeOptions(call.options).frameRate
  /\ titles = <<>>
  /\ colors = <<>> /\ escapedTitle = <<>> /\ fcpxml = <<>> /\ templates = <<>>
  /\ result = NoResult
  /\ ms = 0 /\ fraction = <<>>
  /\ IdleSanitizer /\ IdleParser /\ IdleColor /\ IdleCli

\* maxEndMs and totalDuration, the three colors, escapedTitle
ComputeTotalDuration ==
  /\ pc = "duration"
  /\ ms' = MaxEndMs(cueList \o <<>>)
  /\ fraction' = millisecondsToFraction(ms', frameRate)
  /\ \E opts \in {MergeOptions(options)} :
       /\ colors' = [textColor |-> hexToFcpxmlColor(opts.textColor),
                     backgroundColor |-> hexToFcpxmlColor(opts.backgroundColor),
                     strokeColor |-> hexToFcpxmlColor(opts.strokeColor)]
       /\ escapedTitle' = escapeXmlContent(opts.titleName)
  /\ pc' = "map"
  /\ UNCHANGED <<frameRate, result, options, fcpxml, templates, sanitizerVars, parserVars,
                 emitterVars, colorVars, cliVars>>

\* the title the callback of cues.map builds for the next cue, or its throw
NextTitle ==
  buildTitleXml(cueList[Len(titles) + 1], Len(titles), frameRate,
                MergeOptions(options), colors.textColor, colors.backgroundColor,
                colors.strokeColor)

\* the callback of cues.map for the next cue returns its title
BuildTitle ==
  /\ pc = "map"
  /\ Len(titles) < Len(cueList)
  /\ \E built \in {NextTitle} :
       /\ ~built.thrown
       /\ titles' = Append(titles, built.title)
  /\ UNCHANGED <<pc, cueList, result, sanitizerVars, codecVars, parserVars, colorVars,
                 builderVars, cliVars>>

\* the callback throws: buildFcpxml ends with that error
ThrowFromTitle ==
  /\ pc = "map"
  /\ Len(titles) < Len(cueList)
  /\ \E built \in {NextTitle} :
       /\ built.thrown
       /\ result' = built.error
  /\ pc' = "thrown"
  /\ UNCHANGED <<sanitizerVars, codecVars, parserVars, emitterVars, colorVars,
                 builderVars, cliVars>>

\* the values the document holds, in the order they are written
Document(opts, title, totalDuration, titlesXml) ==
  [version |-> opts.formatVersion,
   formatName |-> <<"F", "F", "V", "i", "d", "e", "o", "F", "o", "r", "m", "a", "t">>
                    \o NumberString(opts.height) \o <<"p">> \o NumberString(opts.frameRate),
   frameDuration |-> <<"1", "/">> \o NumberString(opts.frameRate) \o <<"s">>,
   width |-> NumberString(opts.width),
   height |-> NumberString(opts.height),
   eventName |-> title,
   projectName |-> title,
   duration |-> totalDuration,
   spine |-> titlesXml]

\* every title is built: the document is returned
ReturnDocument ==
  /\ pc = "map"
  /\ Len(titles) = Len(cueList)
  /\ fcpxml' = Document(MergeOptions(options), escapedTitle, fraction, titles)
  /\ result' = Returned
  /\ pc' = "done"
  /\ UNCHANGED <<options, colors, escapedTitle, templates, sanitizerVars, codecVars, parserVars,
                 emitterVars, colorVars, cliVars>>

NextBuild == ComputeTotalDuration \/ BuildTitle \/ ThrowFromTitle \/ ReturnDocument

SpecBuild == InitBuild /\ [][NextBuild]_vars

----------------------------------------------------------------------------
(* SpecTemplate: buildFcpxmlFromTemplate on a list of cues and the two     *)
(* templates loadTemplates read; cues.map fills the title template once    *)
(* per step and a throw ends the call.                                     *)

\* what the template files may hold: every placeholder once, and the style
\* and the sequence duration twice with the text before the timing values
Templates == {
  [titleTemplate |->
     <<"<", "t", "i", "t", "l", "e", " ", "n", "a", "m", "e", "=", "\"",
       "{", "D", "I", "S", "P", "L", "A", "Y", "_", "N", "A", "M", "E",
       "}", "\"", " ", "o", "f", "f", "s", "e", "t", "=", "\"", "{", "O",
       "F", "F", "S", "E", "T", "}", "\"", " ", "d", "u", "r", "a", "t",
       "i", "o", "n", "=", "\"", "{", "D", "U", "R", "A", "T", "I", "O",
       "N", "}", "\"", " ", "s", "t", "a", "r", "t", "=", "\"", "{", "S",
       "T", "A", "R", "T", "}", "\"", ">", "\n", " ", " ", "<", "t", "e",
       "x", "t", "-", "s", "t", "y", "l", "e", " ", "r", "e", "f", "=",
       "\"", "{", "S", "T", "Y", "L", "E", "_", "I", "D", "}", "\"", ">",
       "{", "T", "E", "X", "T", "}", "<", "/", "t", "e", "x", "t", "-",
       "s", "t", "y", "l", "e", ">", "\n", "<", "/", "t", "i", "t", "l",
       "e", ">">>,
   baseTemplate |->
     <<"<", "s", "e", "q", "u", "e", "n", "c", "e", " ", "d", "u", "r",
       "a", "t", "i", "o", "n", "=", "\"", "{", "S", "E", "Q", "U", "E",
       "N", "C", "E", "_", "D", "U", "R", "A", "T", "I", "O", "N", "}",
       "\"", ">", "\n", "<", "s", "p", "i", "n", "e", ">", "\n", "{", "T",
       "I", "T", "L", "E", "S", "}", "\n", "<", "/", "s", "p", "i", "n",
       "e", ">", "\n", "<", "/", "s", "e", "q", "u", "e", "n", "c", "e", ">">>],
  [titleTemplate |->
     <<"<", "t", "i", "t", "l", "e", " ", "r", "e", "f", "=", "\"", "{",
       "S", "T", "Y", "L", "E", "_", "I", "D", "}", "\"", " ", "n", "a",
       "m", "e", "=", "\"", "{", "D", "I", "S", "P", "L", "A", "Y", "_",
       "N", "A", "M", "E", "}", "\"", ">", "{", "T", "E", "X", "T", "}",
       "<", "d", "e", "f", " ", "i", "d", "=", "\"", "{", "S", "T", "Y",
       "L", "E", "_", "I", "D", "}", "\"", " ", "a", "t", "=", "\"", "{",
       "O", "F", "F", "S", "E", "T", "}", "\"", " ", "l", "e", "n", "=",
       "\"", "{", "D", "U", "R", "A", "T", "I", "O", "N", "}", "\"", " ",
       "f", "r", "o", "m", "=", "\"", "{", "S", "T", "A", "R", "T", "}",
       "\"", "/", ">", "<", "/", "t", "i", "t", "l", "e", ">">>,
   baseTemplate |->
     <<"<", "a", " ", "d", "=", "\"", "{", "S", "E", "Q", "U", "E", "N",
       "C", "E", "_", "D", "U", "R", "A", "T", "I", "O", "N", "}", "\"",
       ">", "{", "T", "I", "T", "L", "E", "S", "}", "<", "/", "a", ">",
       "<", "b", " ", "d", "=", "\"", "{", "S", "E", "Q", "U", "E", "N",
       "C", "E", "_", "D", "U", "R", "A", "T", "I", "O", "N", "}", "\"",
       "/", ">">>] }

\* cue texts: plain ones, ones holding a placeholder token, ones holding '$',
\* and one the validation rejects
TemplateTexts == {
  <<"H", "i">>,
  <<"H", "i", "\n", "y", "o", "u">>,
  <<"a", "{", "T", "E", "X", "T", "}">>,
  <<"{", "S", "T", "Y", "L", "E", "_", "I", "D", "}">>,
  <<"{", "T", "I", "T", "L", "E", "S", "}">>,
  <<"c", "o", "s", "t", " ", "$", "&", " ", "x">>,
  <<"$", "$", "5">>,
  <<"$", "'">>,
  <<"$", "U+96">>,
  <<"$", "1">>,
  <<"<", "!", "e", "n", "t", "i", "t", "y", " ", "x">> }

MaxTemplateCues == 2

TemplateCueLists ==
  {[k \in 1..Len(ts) |-> [index |-> k, startMs |-> (k - 1) * CueGapMs,
                          endMs |-> (k - 1) * CueGapMs + CueLengthMs,
                          text |-> ts[k]]] :
     ts \in SeqsUpTo(TemplateTexts, MaxTemplateCues)}

InitTemplate ==
  /\ pc = "duration"
  /\ cueList \in TemplateCueLists
  /\ templates \in Templates
  /\ frameRate = DefaultFrameRate
  /\ titles = <<>>
  /\ options = <<>> /\ colors = <<>> /\ escapedTitle = <<>> /\ fcpxml = <<>>
  /\ result = NoResult
  /\ ms = 0 /\ fraction = <<>>
  /\ IdleSanitizer /\ IdleParser /\ IdleColor /\ IdleCli

\* maxEndMs and totalDuration
ComputeSequenceDuration ==
  /\ pc = "duration"
  /\ ms' = MaxEndMs(cueList \o <<>>)
  /\ fraction' = millisecondsToFraction(ms', frameRate)
  /\ pc' = "map"
  /\ UNCHANGED <<frameRate, result, sanitizerVars, parserVars, emitterVars, colorVars,
                 builderVars, cliVars>>

\* the values the callback of cues.map computes for the next cue, or its throw
NextTemplateTitle == buildTitleFromTemplate(cueList[Len(titles) + 1], Len(titles), frameRate)

\* the callback returns the title template with the values in it
FillTitle ==
  /\ pc = "map"
  /\ Len(titles) < Len(cueList)
  /\ \E built \in {NextTemplateTitle} :
       /\ ~built.thrown
       /\ titles' = Append(titles,
                           [built.title EXCEPT
                              !.xml = FillTitleTemplate(templates.titleTemplate,
                                                        built.title)])
  /\ UNCHANGED <<pc, cueList, result, sanitizerVars, codecVars, parserVars, colorVars,
                 builderVars, cliVars>>

\* the callback throws: buildFcpxmlFromTemplate ends with that error
FillTitleThrows ==
  /\ pc = "map"
  /\ Len(titles) < Len(cueList)
  /\ \E built \in {NextTemplateTitle} :
       /\ built.thrown
       /\ result' = built.error
  /\ pc' = "thrown"
  /\ UNCHANGED <<sanitizerVars, codecVars, parserVars, emitterVars, colorVars,
                 builderVars, cliVars>>

\* every title is filled: the base template with the duration and the titles
\* in it is returned
FillBase ==
  /\ pc = "map"
  /\ Len(titles) = Len(cueList)
  /\ fcpxml' = FillBaseTemplate(templates.baseTemplate, fraction,
                                Join([k \in 1..Len(titles) |-> titles[k].xml], <<"\n">>))
  /\ result' = Returned
  /\ pc' = "done"
  /\ UNCHANGED <<options, colors, escapedTitle, templates, sanitizerVars, codecVars,
                 parserVars, emitterVars, colorVars, cliVars>>

NextTemplate == ComputeSequenceDuration \/ FillTitle \/ FillTitleThrows \/ FillBase

SpecTemplate == InitTemplate /\ [][NextTemplate]_vars

----------------------------------------------------------------------------
(* Claims about parseSrt and convertSrtToFcpxml *)

\* H*3600000 + M*60000 + S*1000 + ms of the timestamp at position i
MsOf(line, i) ==
  FieldAt(line, i, 2) * 3600000 + FieldAt(line, i + 3, 2) * 60000
    + FieldAt(line, i + 6, 2) * 1000 + FieldAt(line, i + 9, 3)

\* the block's second line is a timing line
HasTimingLine(block) ==
  /\ Len(SplitLines(block)) >= 2
  /\ TimecodeMatch(Trim(SplitLines(block)[2])) > 0

\* ... and its right time is not after its left time
EndNotAfterStart(block) ==
  /\ HasTimingLine(block)
  /\ LET line == Trim(SplitLines(block)[2])
     IN MsOf(line, TimecodeMatch(line)) <= MsOf(line, 1)

\* the block's first line starts with an integer
HasIndexLine(block) == ~IsNaNInt(Trim(SplitLines(block)[1]))

CuesEndAfterStart == \A k \in 1..Len(cues) : cues[k].endMs > cues[k].startMs

\* this pass of the loop pushes no cue and exactly one diagnostic, the one
\* about the end time
RejectsForEndTime ==
  /\ cues' = cues
  /\ Len(errors') = Len(errors) + 1
  /\ SubSeq(errors', 1, Len(errors)) = errors
  /\ errors'[Len(errors')].prefix = "End time must be after start time in cue "

RightStampAt == 18
WellFormed(lines) ==
  /\ Len(lines) >= 3
  /\ lines[1] # <<>>
  /\ \A j \in 1..Len(lines[1]) : IsDigit(lines[1][j])
  /\ Len(lines[2]) = RightStampAt + TimestampLen - 1
  /\ IsTimestampAt(lines[2], 1)
  /\ SubSeq(lines[2], TimestampLen + 1, RightStampAt - 1) = <<" ", "-", "-", ">", " ">>
  /\ IsTimestampAt(lines[2], RightStampAt)
  /\ MsOf(lines[2], RightStampAt) > MsOf(lines[2], 1)

\* C2: for every well-formed block of the file, parseSrt returns a cue with
\* index N, startMs the weighted sum of the left timestamp's fields and endMs
\* that of the right timestamp's.
C2_WellFormedBlockParsed ==
  pc = "parsed" =>
    \A i \in 1..Len(document.blocks) :
      WellFormed(document.blocks[i]) =>
        \E k \in 1..Len(cues) :
          /\ cues[k].index = ParseDigits(document.blocks[i][1], 10, 0)
          /\ cues[k].startMs = MsOf(document.blocks[i][2], 1)
          /\ cues[k].endMs = MsOf(document.blocks[i][2], RightStampAt)

\* the block '42 / 01:02:03,004 --> 99:59:59,999 / Hi' was parsed
C2_Witness ==
  /\ pc = "parsed"
  /\ Len(document.blocks) = 1
  /\ WellFormed(document.blocks[1])
  /\ Len(cues) = 1
  /\ cues[1].index = 42
  /\ cues[1].startMs = 3723004
  /\ cues[1].endMs = 359999999

\* what parseSrt returns for block i of the file alone
ParseAlone(i) == parseSrt(Render([eol |-> document.eol,
                                  blocks |-> <<document.blocks[i]>>]))
RECURSIVE AloneCues(_)
AloneCues(n) == IF n = 0 THEN <<>> ELSE AloneCues(n - 1) \o ParseAlone(n).cues
RECURSIVE AloneErrors(_)
AloneErrors(n) == IF n = 0 THEN <<>> ELSE AloneErrors(n - 1) \o ParseAlone(n).errors

\* C3: for a file of blocks B1..Bn separated by blank lines, the cues and the
\* diagnostics parseSrt returns are those it returns for B1 alone, then those
\* for B2 alone, and so on to Bn.
C3_ParseIsBlockwise ==
  pc = "parsed" =>
    /\ cues = AloneCues(Len(document.blocks))
    /\ errors = AloneErrors(Len(document.blocks))

\* a file with a malformed block between two good ones was parsed
C3_Witness ==
  /\ pc = "parsed"
  /\ document.blocks = <<GoodBlock, IncompleteBlock, PaddedBlock>>
  /\ Len(cues) = 2
  /\ cues[1].index = 1
  /\ cues[2].index = 7
  /\ Len(errors) = 1

\* C4: convertSrtToFcpxml throws 'No valid SRT cues found in input' exactly
\* when parseSrt returned no cue, however many diagnostics it returned.
C4_NoCuesErrorIffNoCues ==
  pc \in {"thrown", "done"} =>
    ((result.kind = "thrown" /\ result.message = "No valid SRT cues found in input")
       <=> Len(cues) = 0)

\* a file with a cue and a diagnostic was converted
C4_Witness ==
  /\ pc = "done"
  /\ result.kind = "returned"
  /\ cues # <<>>
  /\ errors # <<>>

\* the block has an index line and a timing line with the end after the
\* start, and what is left of its text after sanitizing is empty
HasEmptyText(block) ==
  /\ HasTimingLine(block)
  /\ HasIndexLine(block)
  /\ ~EndNotAfterStart(block)
  /\ CueText(SplitLines(block)) = <<>>

\* this pass of the loop pushes one cue, with the block's index and times and
\* the text '', and exactly one diagnostic, 'Empty text in cue N'
PushesCueWithEmptyText(block) ==
  LET lines == SplitLines(block)
      timing == Trim(lines[2])
      n == parseInt(Trim(lines[1]))
  IN /\ cues' = Append(cues, [index |-> n,
                              startMs |-> MsOf(timing, 1),
                              endMs |-> MsOf(timing, TimecodeMatch(timing)),
                              text |-> <<>>])
     /\ Len(errors') = Len(errors) + 1
     /\ SubSeq(errors', 1, Len(errors)) = errors
     /\ errors'[Len(errors')].prefix = "Empty text in cue "
     /\ errors'[Len(errors')].rest = NumberToString(n)

\* C13: a block with a valid index and valid timing whose sanitized text is
\* empty yields a cue with text '' and exactly one diagnostic, 'Empty text
\* in cue N'; it is never skipped.
C13_EmptyTextStillYieldsCue ==
  [][(pc = "loop" /\ blocks # <<>> /\ HasEmptyText(Head(blocks)))
       => PushesCueWithEmptyText(Head(blocks))]_vars

\* the file '9 / 00:00:01,000 --> 00:00:02,000 / <i></i>' was parsed
C13_Witness ==
  /\ pc = "parsed"
  /\ document.blocks = <<MarkupOnlyBlock>>
  /\ cues = <<[index |-> 9, startMs |-> 1000, endMs |-> 2000, text |-> <<>>]>>
  /\ Len(errors) = 1
  /\ errors[1].prefix = "Empty text in cue "
  /\ errors[1].rest = <<"9">>

----------------------------------------------------------------------------
(* Claims about buildFcpxml *)

HasDangerousText == \E k \in 1..Len(cueList) : cueList[k].text \in DangerousTexts

\* C5: when the text of any cue of the list matches a dangerous pattern,
\* buildFcpxml returns no document, and the error it ends with is
\* 'XML security validation failed'.
C5_DangerousTextAborts ==
  HasDangerousText =>
    /\ pc # "done"
    /\ result.kind # "returned"
    /\ pc = "thrown" =>
         /\ result.kind = "thrown"
         /\ result.message =
              "XML security validation failed: Potentially dangerous XML pattern detected: "

\* two titles were built, the third cue's text made the call throw
C5_Witness ==
  /\ pc = "thrown"
  /\ Len(cueList) = 3
  /\ Len(titles) = 2
  /\ cueList[3].text \in DangerousTexts
  /\ result.kind = "thrown"

\* an end time no cue of the list ends after (0 for no cue)
LatestEnd ==
  IF cueList = <<>> THEN 0
  ELSE CHOOSE m \in {cueList[k].endMs : k \in 1..Len(cueList)} :
         \A k \in 1..Len(cueList) : cueList[k].endMs <= m

\* C12: the sequence duration in the returned document is the frame fraction
\* millisecondsToFraction gives for the largest endMs of the cues, wherever in
\* the list that cue stands, and "0/<rate>s" when there is no cue.
C12_DurationIsLatestEnd ==
  pc = "done" =>
    /\ fcpxml.duration = millisecondsToFraction(LatestEnd, frameRate)
    /\ cueList = <<>> =>
         fcpxml.duration = <<"0", "/">> \o ToDigits(frameRate, 10) \o <<"s">>

\* three cues at 50 frames a second, the first one ending last, at 3200 ms
C12_Witness ==
  /\ pc = "done"
  /\ frameRate = 50
  /\ Len(cueList) = 3
  /\ cueList[1].endMs = 3200
  /\ cueList[2].endMs = 580
  /\ cueList[3].endMs = 1280
  /\ fcpxml.duration = <<"1", "6", "0", "/", "5", "0", "s">>

----------------------------------------------------------------------------
(* Claims about decodeHtmlEntities *)

\* A decoder that visits every character reference of its input once, left
\* to right, and never looks at a character it has produced.
AnyNamedAt(s, i) == \E k \in 1..Len(HTML_ENTITIES) : MatchAtCI(s, i, HTML_ENTITIES[k].entity)
FirstNamedAt(s, i) ==
  HTML_ENTITIES[CHOOSE k \in 1..Len(HTML_ENTITIES) :
                  /\ MatchAtCI(s, i, HTML_ENTITIES[k].entity)
                  /\ \A j \in 1..(k - 1) : ~MatchAtCI(s, i, HTML_ENTITIES[j].entity)]

SinglePassDecode(s) ==
  ReplaceAll(s,
    [i \in 1..Len(s) |->
       IF AnyNamedAt(s, i) THEN Len(FirstNamedAt(s, i).entity)
       ELSE IF DecimalMatchLen(s, i) > 0 THEN DecimalMatchLen(s, i)
       ELSE HexMatchLen(s, i)],
    [i \in 1..Len(s) |->
       IF AnyNamedAt(s, i) THEN <<FirstNamedAt(s, i).char>>
       ELSE IF DecimalMatchLen(s, i) > 0
         THEN NumericReplacement(
                ParseIntDec(SubSeq(s, i + 2, i + DecimalMatchLen(s, i) - 2)))
       ELSE IF HexMatchLen(s, i) > 0
         THEN NumericReplacement(
                ParseDigits(SubSeq(s, i + 3, i + HexMatchLen(s, i) - 2), 16, 0))
       ELSE <<>>])

\* C8: decodeHtmlEntities decodes each character reference of its input
\* exactly once and never decodes again a character it has just produced:
\* its result is the result of one left-to-right pass over the input.
C8_DecodesEachReferenceOnce ==
  pc = "done" => out = SinglePassDecode(text)

\* C9 as stated: a numeric reference in plain text is replaced by its
\* character if and only if its value lies in 1..0x10FFFF outside
\* 0xD800..0xDFFF, and by the empty string otherwise.
InScalarRange(n) ==
  /\ n >= 1 /\ n <= 1114111
  /\ ~(n >= 55296 /\ n <= 57343)

----------------------------------------------------------------------------
(* SpecColor: one call of hexToFcpxmlColor *)

HexBytes == {<<"0", "0">>, <<"f", "F">>, <<"F", "E">>}

\* #RRGGBB and #RRGGBBAA, with and without the '#', and strings that are neither
ColorInputs ==
  {prefix \o Concat(bs) :
     prefix \in {<<>>, <<"#">>},
     bs \in {q \in SeqsUpTo(HexBytes, 4) : Len(q) >= 3}}
  \cup {<<"#", "0", "0", "f", "F", "8", "0", "0", "1">>,
        <<"0", "1", "0", "2", "7", "f">>,
        <<"#", "3", "3", "C", "c", "1", "0">>,
        <<"#", "F", "F", "F">>, <<"r", "e", "d">>, <<>>,
        <<"#", "0", "0", "0", "0", "0", "g">>}

InitColor ==
  /\ pc = "color"
  /\ hex \in ColorInputs
  /\ color = <<>>
  /\ result = NoResult
  /\ IdleSanitizer /\ IdleCodec /\ IdleParser /\ IdleEmitter /\ IdleBuilder /\ IdleCli

HexToFcpxmlColor ==
  /\ pc = "color"
  /\ color' = hexToFcpxmlColor(hex)
  /\ pc' = "done"
  /\ UNCHANGED <<hex, result, sanitizerVars, codecVars, parserVars, emitterVars,
                 builderVars, cliVars>>

NextColor == HexToFcpxmlColor

SpecColor == InitColor /\ [][NextColor]_vars

----------------------------------------------------------------------------
(* Claims about hexToFcpxmlColor *)

HexDigitsOf(h) == IF h # <<>> /\ h[1] = "#" THEN Tail(h) ELSE h

\* 6 or 8 hex digits, with or without a leading '#'
IsHexColor(h) ==
  /\ Len(HexDigitsOf(h)) \in {6, 8}
  /\ \A i \in 1..Len(HexDigitsOf(h)) : IsHexDigit(HexDigitsOf(h)[i])

\* the two digits of byte k (1 = red ... 4 = alpha)
ByteOf(h, k) == SubSeq(HexDigitsOf(h), 2 * k - 1, 2 * k)

IsByte(b, digit) == ToLower(b[1]) = digit /\ ToLower(b[2]) = digit

\* C11: for a color of 6 or 8 hex digits, with or without '#', the vector has
\* exactly four space-separated components; a component is "0" exactly when
\* its byte is 00 and "1" exactly when its byte is FF; alpha is "1" when only
\* 6 digits are given.
C11_ColorVectorLiterals ==
  (pc = "done" /\ IsHexColor(hex)) =>
    LET parts == Split(color, [i \in 1..Len(color) |-> IF color[i] = " " THEN 1 ELSE 0])
        given == Len(HexDigitsOf(hex)) \div 2
    IN /\ Len(parts) = 4
       /\ \A k \in 1..4 : parts[k] # <<>>
       /\ \A k \in 1..given :
            /\ parts[k] = <<"0">> <=> IsByte(ByteOf(hex, k), "0")
            /\ parts[k] = <<"1">> <=> IsByte(ByteOf(hex, k), "f")
       /\ given = 3 => parts[4] = <<"1">>

\* '#00fF8001' has become '0 1 0.5019607843137255 0.00392156862745098'
C11_Witness ==
  /\ pc = "done"
  /\ hex = <<"#", "0", "0", "f", "F", "8", "0", "0", "1">>
  /\ color = <<"0", " ", "1", " ">>
               \o <<"0", ".", "5", "0", "1", "9", "6", "0", "7", "8", "4", "3",
                    "1", "3", "7", "2", "5", "5", " ">>
               \o <<"0", ".", "0", "0", "3", "9", "2", "1", "5", "6", "8", "6",
                    "2", "7", "4", "5", "0", "9", "8">>

----------------------------------------------------------------------------
(* mergeConfig.  Option values are strings and numbers; an object is a      *)
(* function from the keys it has.  Commander hands the action every option,  *)
(* the user's value where one was given and the option's default otherwise.  *)

\* the keys of DEFAULT_CONFIG in the order Object.entries lists them
ConfigKeys == <<"title", "fps", "width", "height", "font", "size", "face", "color",
                "bg", "strokeColor", "strokeWidth", "formatVersion">>

DEFAULT_CONFIG ==
  [title |-> "Converted from SRT",
   fps |-> 24,
   width |-> 1920,
   height |-> 1080,
   font |-> "Helvetica",
   size |-> 72,
   face |-> "Regular",
   color |-> "#FFFFFFFF",
   bg |-> "#00000000",
   strokeColor |-> "#000000FF",
   strokeWidth |-> 0,
   formatVersion |-> "1.8"]

\* the options whose values are numbers
NumberKeys == {"fps", "width", "height", "size", "strokeWidth"}

\* if (value): a number other than 0, a string other than ''
Truthy(key, value) == IF key \in NumberKeys THEN value # 0 ELSE value # ""

\* the options object Commander passes to the action
CommanderOptions(given) ==
  [k \in DOMAIN DEFAULT_CONFIG |-> IF k \in DOMAIN given THEN given[k] ELSE DEFAULT_CONFIG[k]]

\* no config file was loaded / the object a config file held
NoConfig == [loaded |-> FALSE, values |-> <<>>]
Loaded(values) == [loaded |-> TRUE, values |-> values]

specialCases == {"strokeWidth"}

\* the body of the for loop for one entry of defaults
ApplyConfigValue(merged, key, config) ==
  IF key \in specialCases
  THEN IF merged[key] = DEFAULT_CONFIG[key] /\ key \in DOMAIN config
       THEN [merged EXCEPT ![key] = config[key]]
       ELSE merged
  ELSE IF /\ merged[key] = DEFAULT_CONFIG[key]
          /\ key \in DOMAIN config
          /\ Truthy(key, config[key])
       THEN [merged EXCEPT ![key] = config[key]]
       ELSE merged

RECURSIVE ApplyConfig(_, _, _)
ApplyConfig(merged, entries, config) ==
  IF entries = <<>> THEN merged
  ELSE ApplyConfig(ApplyConfigValue(merged, Head(entries), config), Tail(entries), config)

mergeConfig(cliOptions, config) ==
  IF config.loaded THEN ApplyConfig(cliOptions, ConfigKeys, config.values)
  ELSE cliOptions

----------------------------------------------------------------------------
(* SpecMerge: one call of mergeConfig, the for loop one entry at a time *)

\* values a user may give: the option's default and another one
CliValues ==
  [title |-> {"Converted from SRT", "My Film"},
   fps |-> {24, 30},
   width |-> {1920, 1280},
   height |-> {1080, 720},
   font |-> {"Helvetica", "Arial"},
   size |-> {72, 48},
   face |-> {"Regular", "Bold"},
   color |-> {"#FFFFFFFF", "#FF0000FF"},
   bg |-> {"#00000000", "#000000FF"},
   strokeColor |-> {"#000000FF", "#FFFFFFFF"},
   strokeWidth |-> {0, 2},
   formatVersion |-> {"1.8", "1.10"}]

\* values a config file may hold: '' or 0, and another one
ConfigValues ==
  [title |-> {"", "From Config"},
   fps |-> {0, 25},
   width |-> {0, 3840},
   height |-> {0, 2160},
   font |-> {"", "Courier"},
   size |-> {0, 96},
   face |-> {"", "W8"},
   color |-> {"", "#00FF00FF"},
   bg |-> {"", "#11111111"},
   strokeColor |-> {"", "#0000FFFF"},
   strokeWidth |-> {0, 5},
   formatVersion |-> {"", "1.9"}]

MaxOptionsGiven == 1

\* the objects with at most n of the keys, each with one of its values
RECURSIVE Objects(_, _)
Objects(values, n) ==
  IF n = 0 THEN {[k \in {} |-> 0]}
  ELSE LET smaller == Objects(values, n - 1)
       IN smaller \cup
          UNION {UNION {{[k \in DOMAIN f \cup {key} |-> IF k = key THEN v ELSE f[k]] :
                           v \in values[key]} :
                          key \in DOMAIN values \ DOMAIN f} :
                   f \in smaller}

InitMerge ==
  /\ pc = "merge"
  /\ argv \in Objects(CliValues, MaxOptionsGiven)
  /\ configFile \in {NoConfig} \cup {Loaded(o) : o \in Objects(ConfigValues, MaxOptionsGiven)}
  /\ mergedOptions = <<>>
  /\ keys = <<>>
  /\ result = NoResult
  /\ IdleSanitizer /\ IdleCodec /\ IdleParser /\ IdleEmitter /\ IdleColor
  /\ IdleBuilder /\ IdleLogger /\ IdleCommand

\* mergedOptions gets the twelve options of cliOptions
CopyCliOptions ==
  /\ pc = "merge"
  /\ mergedOptions' = CommanderOptions(argv)
  /\ keys' = IF configFile.loaded THEN ConfigKeys ELSE <<>>
  /\ pc' = "entries"
  /\ UNCHANGED <<argv, configFile, result, sanitizerVars, codecVars, parserVars,
                 emitterVars, colorVars, builderVars, loggerVars, commandVars>>

\* one pass of the for loop, for strokeWidth
ApplySpecialCase ==
  /\ pc = "entries"
  /\ keys # <<>>
  /\ Head(keys) \in specialCases
  /\ mergedOptions' = ApplyConfigValue(mergedOptions, Head(keys), configFile.values)
  /\ keys' = Tail(keys)
  /\ UNCHANGED <<pc, argv, configFile, result, sanitizerVars, codecVars, parserVars,
                 emitterVars, colorVars, builderVars, loggerVars, commandVars>>

\* one pass of the for loop, for any other option
ApplyStandardCase ==
  /\ pc = "entries"
  /\ keys # <<>>
  /\ Head(keys) \notin specialCases
  /\ mergedOptions' = ApplyConfigValue(mergedOptions, Head(keys), configFile.values)
  /\ keys' = Tail(keys)
  /\ UNCHANGED <<pc, argv, configFile, result, sanitizerVars, codecVars, parserVars,
                 emitterVars, colorVars, builderVars, loggerVars, commandVars>>

ReturnMergedOptions ==
  /\ pc = "entries"
  /\ keys = <<>>
  /\ pc' = "done"
  /\ UNCHANGED <<argv, configFile, mergedOptions, keys, result, sanitizerVars,
                 codecVars, parserVars, emitterVars, colorVars, builderVars,
                 loggerVars, commandVars>>

NextMerge ==
  CopyCliOptions \/ ApplySpecialCase \/ ApplyStandardCase \/ ReturnMergedOptions

SpecMerge == InitMerge /\ [][NextMerge]_vars

----------------------------------------------------------------------------
(* Claims about mergeConfig *)

\* the value the priority rule gives an option: the user's, else the config
\* file's, else the default
ByPriority(key) ==
  IF key \in DOMAIN argv THEN argv[key]
  ELSE IF configFile.loaded /\ key \in DOMAIN configFile.values
       THEN configFile.values[key]
       ELSE DEFAULT_CONFIG[key]

\* C14: for each option the merged value is the one given on the command
\* line if the user gave one, otherwise the config file's if the config file
\* sets the option, otherwise the default.
C14_CliOverConfigOverDefault ==
  pc = "done" => \A key \in DOMAIN DEFAULT_CONFIG : mergedOptions[key] = ByPriority(key)

----------------------------------------------------------------------------
(* logger.  console is the sequence of the calls made on the console, each  *)
(* with the console method and the colour chalk gives the message.          *)

ConsoleCall(method, colour, message) ==
  [method |-> method, colour |-> colour, message |-> message]

\* the call is made whatever quietMode is
WhenNotQuiet_Always(quiet, output, call) == Append(output, call)

\* if (!quietMode) { console.<method>(...) }
WhenNotQuiet(quiet, output, call) == IF ~quiet THEN Append(output, call) ELSE output

setQuiet(quiet) == quiet

loggerInfo(quiet, output, message) ==
  WhenNotQuiet(quiet, output, ConsoleCall("log", "blue", message))

loggerSuccess(quiet, output, message) ==
  WhenNotQuiet(quiet, output, ConsoleCall("log", "green", message))

loggerWarn(quiet, output, message) ==
  WhenNotQuiet(quiet, output, ConsoleCall("warn", "yellow", message))

loggerError(quiet, output, message) ==
  Append(output, ConsoleCall("error", "red", message))

loggerDebug(quiet, output, message) ==
  WhenNotQuiet(quiet, output, ConsoleCall("log", "gray", message))

----------------------------------------------------------------------------
(* SpecLogger: any sequence of setQuiet and logger calls *)

MaxLoggerCalls == 5

LoggerMessage == "message"

InitLogger ==
  /\ pc = "logger"
  /\ quietMode = FALSE
  /\ console = <<>>
  /\ loggerCalls = <<>>
  /\ result = NoResult
  /\ IdleSanitizer /\ IdleCodec /\ IdleParser /\ IdleEmitter /\ IdleColor
  /\ IdleBuilder /\ IdleConfig /\ IdleCommand

LoggerUnchanged ==
  UNCHANGED <<pc, result, sanitizerVars, codecVars, parserVars, emitterVars,
              colorVars, builderVars, configVars, commandVars>>

SetQuiet ==
  /\ pc = "logger"
  /\ Len(loggerCalls) < MaxLoggerCalls
  /\ \E quiet \in BOOLEAN :
       /\ quietMode' = setQuiet(quiet)
       /\ loggerCalls' = Append(loggerCalls, [call |-> "setQuiet", quiet |-> quiet])
  /\ UNCHANGED console
  /\ LoggerUnchanged

Info ==
  /\ pc = "logger"
  /\ Len(loggerCalls) < MaxLoggerCalls
  /\ console' = loggerInfo(quietMode, console, LoggerMessage)
  /\ loggerCalls' = Append(loggerCalls, [call |-> "info", quiet |-> FALSE])
  /\ UNCHANGED quietMode
  /\ LoggerUnchanged

Success ==
  /\ pc = "logger"
  /\ Len(loggerCalls) < MaxLoggerCalls
  /\ console' = loggerSuccess(quietMode, console, LoggerMessage)
  /\ loggerCalls' = Append(loggerCalls, [call |-> "success", quiet |-> FALSE])
  /\ UNCHANGED quietMode
  /\ LoggerUnchanged

Warn ==
  /\ pc = "logger"
  /\ Len(loggerCalls) < MaxLoggerCalls
  /\ console' = loggerWarn(quietMode, console, LoggerMessage)
  /\ loggerCalls' = Append(loggerCalls, [call |-> "warn", quiet |-> FALSE])
  /\ UNCHANGED quietMode
  /\ LoggerUnchanged

Error ==
  /\ pc = "logger"
  /\ Len(loggerCalls) < MaxLoggerCalls
  /\ console' = loggerError(quietMode, console, LoggerMessage)
  /\ loggerCalls' = Append(loggerCalls, [call |-> "error", quiet |-> FALSE])
  /\ UNCHANGED quietMode
  /\ LoggerUnchanged

Debug ==
  /\ pc = "logger"
  /\ Len(loggerCalls) < MaxLoggerCalls
  /\ console' = loggerDebug(quietMode, console, LoggerMessage)
  /\ loggerCalls' = Append(loggerCalls, [call |-> "debug", quiet |-> FALSE])
  /\ UNCHANGED quietMode
  /\ LoggerUnchanged

NextLogger == SetQuiet \/ Info \/ Success \/ Warn \/ Error \/ Debug

SpecLogger == InitLogger /\ [][NextLogger]_vars

----------------------------------------------------------------------------
(* Claims about the logger *)

\* the argument of the most recent setQuiet call before call i, FALSE if none
MostRecentQuiet(i) ==
  LET earlier == {j \in 1..(i - 1) : loggerCalls[j].call = "setQuiet"}
  IN IF earlier = {} THEN FALSE
     ELSE loggerCalls[CHOOSE j \in earlier : \A k \in earlier : k <= j].quiet

\* the logger calls that the claim says produce output
Audible ==
  {i \in 1..Len(loggerCalls) :
     \/ loggerCalls[i].call = "error"
     \/ loggerCalls[i].call \in {"info", "success", "warn", "debug"} /\ ~MostRecentQuiet(i)}

\* the i-th of a set of indices, in increasing order
RECURSIVE Ascending(_)
Ascending(indices) ==
  IF indices = {} THEN <<>>
  ELSE LET least == CHOOSE i \in indices : \A j \in indices : i <= j
       IN <<least>> \o Ascending(indices \ {least})

ConsoleMethodOf(call) ==
  IF call = "error" THEN "error" ELSE IF call = "warn" THEN "warn" ELSE "log"

\* C15: after any sequence of setQuiet calls, starting not quiet, a call of
\* info, success, warn or debug produces console output if and only if the
\* most recent setQuiet argument was false, and a call of error always does:
\* the console holds exactly one call for each such logger call, in order.
C15_OutputIffNotQuiet ==
  LET audible == Ascending(Audible)
  IN /\ Len(console) = Len(audible)
     /\ \A n \in 1..Len(audible) :
          console[n].method = ConsoleMethodOf(loggerCalls[audible[n]].call)

\* quiet was switched on and off again and info was printed, then switched
\* on, where warn printed nothing and error did
C15_Witness ==
  /\ Len(loggerCalls) = 5
  /\ loggerCalls[1] = [call |-> "setQuiet", quiet |-> TRUE]
  /\ loggerCalls[2] = [call |-> "warn", quiet |-> FALSE]
  /\ loggerCalls[3] = [call |-> "error", quiet |-> FALSE]
  /\ loggerCalls[4] = [call |-> "setQuiet", quiet |-> FALSE]
  /\ loggerCalls[5] = [call |-> "info", quiet |-> FALSE]
  /\ Len(console) = 2
  /\ console[1].method = "error"
  /\ console[2].method = "log"

----------------------------------------------------------------------------
(* processCliCommand.  A path is the sequence of its segments, a leading     *)
(* segment "/" making it absolute; '' and a missing path are the empty       *)
(* sequence.  The file system is the sequence of its files, each with its    *)
(* resolved path, the kind of its content and the content.                   *)

Name(chars) == chars

ParentDir == <<".", ".">>
RootDir == <<"/">>

\* process.cwd() and homedir()
Cwd == <<Name(<<"w", "o", "r", "k">>), Name(<<"u", "s", "e", "r">>), Name(<<"p", "r", "o", "j", "e", "c", "t">>)>>
HomeDir == <<Name(<<"h", "o", "m", "e">>), Name(<<"u", "s", "e", "r">>)>>

\* the directories of the file system
Directories == {<<>>, <<Name(<<"e", "t", "c">>)>>, <<Name(<<"h", "o", "m", "e">>)>>, HomeDir} \cup {SubSeq(Cwd, 1, n) : n \in 1..Len(Cwd)}

\* path.resolve: '..' drops the segment before it, the root has no parent
RECURSIVE ResolveSegments(_, _)
ResolveSegments(base, segments) ==
  IF segments = <<>> THEN base
  ELSE IF Head(segments) = ParentDir
  THEN ResolveSegments(IF base = <<>> THEN <<>> ELSE SubSeq(base, 1, Len(base) - 1),
                       Tail(segments))
  ELSE ResolveSegments(Append(base, Head(segments)), Tail(segments))

resolve(path) ==
  IF path # <<>> /\ Head(path) = RootDir THEN ResolveSegments(<<>>, Tail(path))
  ELSE ResolveSegments(Cwd, path)

\* the path as the string the caller wrote
PathString(path) ==
  IF path # <<>> /\ Head(path) = RootDir THEN <<"/">> \o Join(Tail(path), <<"/">>)
  ELSE Join(path, <<"/">>)

SrtExt == <<".", "s", "r", "t">>
FcpxmlExt == <<".", "f", "c", "p", "x", "m", "l">>

\* path.basename(input, '.srt')
basename(path, ext) ==
  IF path = <<>> THEN <<>>
  ELSE LET last == path[Len(path)]
       IN IF /\ Len(last) > Len(ext)
             /\ SubSeq(last, Len(last) - Len(ext) + 1, Len(last)) = ext
          THEN SubSeq(last, 1, Len(last) - Len(ext))
          ELSE last

File(path, kind, content) == [path |-> path, kind |-> kind, content |-> content]

existsSync(fs, path) == \E i \in 1..Len(fs) : fs[i].path = path

readFileSync(fs, path) == fs[CHOOSE i \in 1..Len(fs) : fs[i].path = path]

\* writeFileSync fails where the directory of the path does not exist
CanWrite(path) == path # <<>> /\ SubSeq(path, 1, Len(path) - 1) \in Directories

writeFileSync(fs, path, content) ==
  IF existsSync(fs, path)
  THEN [i \in 1..Len(fs) |-> IF fs[i].path = path THEN File(path, "fcpxml", content)
                             ELSE fs[i]]
  ELSE Append(fs, File(path, "fcpxml", content))

\* the places loadConfigFile looks in
configPaths(configPath) ==
  IF configPath # <<>> THEN <<resolve(configPath)>>
  ELSE <<resolve(<<Name(<<".", "s", "r", "t", "2", "f", "c", "p", "x", "r", "c", ".", "j", "s",
      "o", "n">>)>>),
         resolve(<<Name(<<"s", "r", "t", "2", "f", "c", "p", "x", ".", "c", "o", "n", "f", "i",
      "g", ".", "j", "s", "o", "n">>)>>),
         HomeDir \o <<Name(<<".", "s", "r", "t", "2", "f", "c", "p", "x", "r", "c", ".", "j", "s",
      "o", "n">>)>>>>

\* the for loop of loadConfigFile from the given paths on: the config found
\* and the console after the logger calls made
RECURSIVE LoadFrom(_, _, _, _)
LoadFrom(paths, fs, quiet, output) ==
  IF paths = <<>> THEN [config |-> NoConfig, found |-> FALSE, console |-> output]
  ELSE IF ~existsSync(fs, Head(paths)) THEN LoadFrom(Tail(paths), fs, quiet, output)
  ELSE LET file == readFileSync(fs, Head(paths))
       IN IF file.kind = "json"
          THEN [config |-> Loaded(file.content), found |-> TRUE,
                console |-> loggerDebug(quiet, output, "Config loaded from:")]
          ELSE LoadFrom(Tail(paths), fs, quiet,
                        loggerWarn(quiet,
                                   loggerWarn(quiet, output,
                                              "Warning: Failed to parse config file:"),
                                   "   Error:"))

loadConfigFile(configPath, fs, quiet, output) ==
  LET loaded == LoadFrom(configPaths(configPath), fs, quiet, output)
  IN IF loaded.found THEN loaded
     ELSE IF configPath # <<>>
     THEN [loaded EXCEPT !.console =
             loggerWarn(quiet, loaded.console, "Warning: Config file not found:")]
     ELSE loaded

\* convertSrtToFcpxml: the titles of the document, or the error thrown
convertSrtToFcpxml(srtSource, rate) ==
  LET parseResult == parseSrt(srtSource)
  IN IF NoValidCues(parseResult)
     THEN [thrown |-> TRUE, error |-> Thrown("No valid SRT cues found in input", ""),
           titles |-> <<>>]
     ELSE buildFcpxmlFromTemplate(parseResult.cues, rate)

\* the options showAppliedOptions lists
shownOptions(merged) ==
  {key \in DOMAIN DEFAULT_CONFIG \ {"strokeColor"} : merged[key] # DEFAULT_CONFIG[key]}

showAppliedOptions(merged, quiet, output) ==
  IF shownOptions(merged) # {} THEN loggerDebug(quiet, output, "Applied options:")
  ELSE output

\* the texts of the messages of the errors
MessageTexts ==
  [message \in {"Input file not found: ", "Failed to write output file: ",
                "No valid SRT cues found in input",
                "XML security validation failed: Potentially dangerous XML pattern detected: "} |->
     IF message = "Input file not found: "
     THEN <<"I", "n", "p", "u", "t", " ", "f", "i", "l", "e", " ", "n", "o", "t",
      " ", "f", "o", "u", "n", "d", ":", " ">>
     ELSE IF message = "Failed to write output file: "
     THEN <<"F", "a", "i", "l", "e", "d", " ", "t", "o", " ", "w", "r", "i", "t",
      "e", " ", "o", "u", "t", "p", "u", "t", " ", "f", "i", "l", "e", ":",
      " ">>
     ELSE IF message = "No valid SRT cues found in input"
     THEN <<"N", "o", " ", "v", "a", "l", "i", "d", " ", "S", "R", "T", " ", "c",
      "u", "e", "s", " ", "f", "o", "u", "n", "d", " ", "i", "n", " ", "i",
      "n", "p", "u", "t">>
     ELSE <<"X", "M", "L", " ", "s", "e", "c", "u", "r", "i", "t", "y", " ", "v",
      "a", "l", "i", "d", "a", "t", "i", "o", "n", " ", "f", "a", "i", "l",
      "e", "d", ":", " ", "P", "o", "t", "e", "n", "t", "i", "a", "l", "l",
      "y", " ", "d", "a", "n", "g", "e", "r", "o", "u", "s", " ", "X", "M",
      "L", " ", "p", "a", "t", "t", "e", "r", "n", " ", "d", "e", "t", "e",
      "c", "t", "e", "d", ":", " ">>]

\* error.message
errorMessage(error) == MessageTexts[error.message] \o error.detail

----------------------------------------------------------------------------
(* SpecCli: one call of processCliCommand, statement by statement *)

SrtFiles ==
  {Render([eol |-> <<"\n">>, blocks |-> bs]) :
     bs \in {<<GoodBlock>>, <<GoodBlock, PaddedBlock>>, <<BadTimecodeBlock>>,
             <<DataBlock>>}}

InputPaths == {<<Name(<<"t", "e", "s", "t", ".", "s", "r", "t">>)>>, <<Name(<<"m", "i", "s", "s", "i", "n", "g", ".", "s", "r", "t">>)>>}

TraversingOutput == <<ParentDir, ParentDir, ParentDir, Name(<<"m", "a", "l", "i", "c", "i", "o", "u", "s", "-", "o", "u", "t", "p",
      "u", "t", ".", "f", "c", "p", "x", "m", "l">>)>>
TraversingConfig == <<ParentDir, ParentDir, ParentDir, Name(<<"e", "t", "c">>), Name(<<"p", "a", "s", "s", "w", "d">>)>>

OutputPaths ==
  {<<>>, <<Name(<<"o", "u", "t", ".", "f", "c", "p", "x", "m", "l">>)>>, <<Name(<<"n", "o", "d", "i", "r">>), Name(<<"o", "u", "t", ".", "f", "c", "p", "x", "m", "l">>)>>, TraversingOutput}

ConfigPaths == {<<>>, <<Name(<<"m", "y", ".", "j", "s", "o", "n">>)>>, <<Name(<<"n", "o", "n", "e", ".", "j", "s", "o", "n">>)>>, TraversingConfig}

\* the files beside the input: a config file the user names, the system's
\* password file, and perhaps a config file in the working directory
OtherFiles ==
  {<<File(resolve(<<Name(<<"m", "y", ".", "j", "s", "o", "n">>)>>), "json", [fps |-> 25]),
     File(<<Name(<<"e", "t", "c">>), Name(<<"p", "a", "s", "s", "w", "d">>)>>, "text", <<>>)>> \o rc :
     rc \in {<<>>, <<File(resolve(<<Name(<<".", "s", "r", "t", "2", "f", "c", "p", "x", "r", "c", ".", "j", "s",
      "o", "n">>)>>), "json", [size |-> 96])>>}}

InitCli ==
  /\ pc = "start"
  /\ \E input \in InputPaths, output \in OutputPaths, config \in ConfigPaths :
       command = [input |-> input, options |-> [output |-> output, config |-> config]]
  /\ argv \in {[k \in {} |-> 0], [fps |-> 30]}
  /\ \E srt \in SrtFiles, others \in OtherFiles :
       files = <<File(resolve(<<Name(<<"t", "e", "s", "t", ".", "s", "r", "t">>)>>), "srt", srt)>> \o others
  /\ quietMode \in BOOLEAN
  /\ console = <<>>
  /\ loggerCalls = <<>>
  /\ configFile = <<>>
  /\ mergedOptions = <<>>
  /\ keys = <<>>
  /\ cliResult = <<>>
  /\ result = NoResult
  /\ source = <<>> /\ document = <<>> /\ blocks = <<>> /\ cues = <<>> /\ errors = <<>>
  /\ IdleSanitizer /\ IdleCodec /\ IdleEmitter /\ IdleColor /\ IdleBuilder

CliUnchanged ==
  UNCHANGED <<command, argv, keys, quietMode, loggerCalls, document, blocks, cues,
              errors, sanitizerVars, codecVars, emitterVars, colorVars, options, colors,
              escapedTitle, templates>>

\* logger.info('Reading:', input) and loadConfigFile(options.config)
LoadConfig ==
  /\ pc = "start"
  /\ \E loaded \in {loadConfigFile(command.options.config, files, quietMode,
                                   loggerInfo(quietMode, console, "Reading:"))} :
       /\ configFile' = loaded.config
       /\ console' = loaded.console
  /\ pc' = "read"
  /\ UNCHANGED <<fcpxml, files, mergedOptions, cliResult, result, source>>
  /\ CliUnchanged

\* readSrtFile(input) returns the text of the file
ReadSrtFile ==
  /\ pc = "read"
  /\ existsSync(files, resolve(command.input))
  /\ source' = readFileSync(files, resolve(command.input)).content
  /\ pc' = "merge"
  /\ UNCHANGED <<fcpxml, files, configFile, mergedOptions, cliResult, result, console>>
  /\ CliUnchanged

\* readSrtFile(input) throws
InputNotFound ==
  /\ pc = "read"
  /\ ~existsSync(files, resolve(command.input))
  /\ result' = Thrown("Input file not found: ", PathString(command.input))
  /\ pc' = "catch"
  /\ UNCHANGED <<fcpxml, files, configFile, mergedOptions, cliResult, source, console>>
  /\ CliUnchanged

\* mergeConfig(cliOptions, config)
MergeConfig ==
  /\ pc = "merge"
  /\ mergedOptions' = mergeConfig(CommanderOptions(argv), configFile)
  /\ pc' = "convert"
  /\ UNCHANGED <<fcpxml, files, configFile, cliResult, result, source, console>>
  /\ CliUnchanged

\* convertSrtToFcpxml returns the document
Convert ==
  /\ pc = "convert"
  /\ \E converted \in {convertSrtToFcpxml(source, mergedOptions.fps)} :
       /\ ~converted.thrown
       /\ fcpxml' = converted.titles
  /\ pc' = "write"
  /\ UNCHANGED <<files, configFile, mergedOptions, cliResult, result, source, console>>
  /\ CliUnchanged

\* options.output || `${basename(input, '.srt')}.fcpxml`
OutputFile ==
  IF command.options.output # <<>> THEN command.options.output
  ELSE <<basename(command.input, SrtExt) \o FcpxmlExt>>

\* writeOutputFile writes the file
WriteOutputFile ==
  /\ pc = "write"
  /\ CanWrite(resolve(OutputFile))
  /\ files' = writeFileSync(files, resolve(OutputFile), fcpxml)
  /\ pc' = "written"
  /\ UNCHANGED <<fcpxml, configFile, mergedOptions, cliResult, result, source, console>>
  /\ CliUnchanged

\* convertSrtToFcpxml throws
ConvertThrows ==
  /\ pc = "convert"
  /\ \E fcpxmlText \in {convertSrtToFcpxml(source, mergedOptions.fps)} :
       /\ fcpxmlText.thrown
       /\ result' = fcpxmlText.error
  /\ pc' = "catch"
  /\ UNCHANGED <<fcpxml, files, configFile, mergedOptions, cliResult, source, console>>
  /\ CliUnchanged

\* writeOutputFile goes on as if the file were written
WriteFails_Ignored ==
  /\ pc = "write"
  /\ ~CanWrite(resolve(OutputFile))
  /\ pc' = "written"
  /\ UNCHANGED <<fcpxml, files, configFile, mergedOptions, cliResult, result, source,
                 console>>
  /\ CliUnchanged

\* writeOutputFile throws
WriteFails ==
  /\ pc = "write"
  /\ ~CanWrite(resolve(OutputFile))
  /\ result' = Thrown("Failed to write output file: ", <<"E", "N", "O", "E", "N", "T">>)
  /\ pc' = "catch"
  /\ UNCHANGED <<fcpxml, files, configFile, mergedOptions, cliResult, source, console>>
  /\ CliUnchanged

\* the messages after the file is written, and the return
ReturnSuccess ==
  /\ pc = "written"
  /\ console' = showAppliedOptions(mergedOptions, quietMode,
                  loggerInfo(quietMode,
                             loggerSuccess(quietMode, console, "Converted successfully!"),
                             "Output:"))
  /\ cliResult' = [success |-> TRUE, outputFile |-> OutputFile, error |-> <<>>]
  /\ pc' = "done"
  /\ UNCHANGED <<fcpxml, files, configFile, mergedOptions, result, source>>
  /\ CliUnchanged

\* the catch block
ReturnFailure ==
  /\ pc = "catch"
  /\ console' = loggerError(quietMode, console, "Error:")
  /\ cliResult' = [success |-> FALSE, outputFile |-> <<>>, error |-> errorMessage(result)]
  /\ pc' = "done"
  /\ UNCHANGED <<fcpxml, files, configFile, mergedOptions, result, source>>
  /\ CliUnchanged

NextCli ==
  \/ LoadConfig \/ ReadSrtFile \/ InputNotFound \/ MergeConfig \/ Convert \/ ConvertThrows
  \/ WriteOutputFile \/ WriteFails \/ ReturnSuccess \/ ReturnFailure

SpecCli == InitCli /\ [][NextCli]_vars

----------------------------------------------------------------------------
(* Claims about processCliCommand *)

\* the path leads outside the working directory
Traverses(path) ==
  /\ path # <<>>
  /\ LET resolved == resolve(path)
     IN ~(Len(resolved) >= Len(Cwd) /\ SubSeq(resolved, 1, Len(Cwd)) = Cwd)

SecurityError == <<"S", "e", "c", "u", "r", "i", "t", "y", " ", "E", "r", "r", "o", "r">>

\* C16: a call whose output path or config path traverses outside the
\* working directory returns success = false with an error that contains
\* 'Security Error', and no file has been written.
C16_TraversalRefused ==
  (/\ pc = "done"
   /\ Traverses(command.options.output) \/ Traverses(command.options.config))
    => /\ cliResult.success = FALSE
       /\ Contains(cliResult.error, SecurityError)
       /\ \A i \in 1..Len(files) : files[i].kind # "fcpxml"

----------------------------------------------------------------------------
(* Claims about the strings buildFcpxml inserts *)

\* the references the two escape functions write
References ==
  {<<"&", "a", "m", "p", ";">>, <<"&", "l", "t", ";">>, <<"&", "g", "t", ";">>,
   <<"&", "q", "u", "o", "t", ";">>, <<"&", "a", "p", "o", "s", ";">>,
   <<"&", "#", "1", "0", ";">>, <<"&", "#", "1", "3", ";">>, <<"&", "#", "9", ";">>}

\* s holds no '<', '>' or '"', and every '&' of s begins a reference
HasNoRawMarkup(s) ==
  \A i \in 1..Len(s) :
    /\ s[i] \notin {"<", ">", "\""}
    /\ s[i] = "&" => \E reference \in References : MatchAt(s, i, reference)

\* the values of the attributes of a text style that come from the caller
CallerStyleValues(style) ==
  {style[i].value : i \in {j \in 1..Len(style) :
                             style[j].key \in {<<"f", "o", "n", "t">>,
                                               <<"f", "o", "n", "t", "F", "a", "c", "e">>}}}

\* the strings of the caller as they stand in the document
InsertedStrings(doc) ==
  {doc.version, doc.eventName, doc.projectName}
    \cup UNION {{doc.spine[k].name, doc.spine[k].text}
                  \cup CallerStyleValues(doc.spine[k].style) : k \in 1..Len(doc.spine)}

\* C17: every string of the caller that buildFcpxml inserts into the document
\* (cue text, project title, font family, font face, format version) is
\* escaped: none of them puts a raw '<', '>', '&' or '"' into the output.
C17_InsertedStringsEscaped ==
  (pc = "done" /\ result = Returned /\ fcpxml # <<>>)
    => \A s \in InsertedStrings(fcpxml) : HasNoRawMarkup(s)

----------------------------------------------------------------------------
(* Claims about the text parseSrt stores *)

\* the block takes the loop body to cues.push
YieldsCue(block) == BranchOf(block).kind = "cue"

\* the text lines of the block joined, as the loop body reads them
RawText(block) ==
  LET lines == SplitLines(block)
  IN TrimNewlines(Join(SubSeq(lines, 3, Len(lines)), <<"\n">>))

\* the raw text with its markup taken out and every character reference
\* decoded in one pass from left to right
DecodedOnce(raw) ==
  TrimPolicy(raw, CleanWhitespace(SinglePassDecode(RemoveMarkup(RemoveComments(raw)))))

\* the text of the cue the loop body has just pushed
PushedText == cues'[Len(cues')].text

\* C21: parseSrt decodes the entities of a cue's text once, not recursively:
\* the stored text is the raw text without its tags, each character reference
\* decoded a single time ('&amp;amp;' is stored as '&amp;').
C21_TextDecodedOnce ==
  [][(pc = "loop" /\ blocks # <<>> /\ YieldsCue(Head(blocks)))
       => /\ Len(cues') = Len(cues) + 1
          /\ PushedText = DecodedOnce(RawText(Head(blocks)))]_vars

\* s is a base-10 integer: an optional sign and digits, nothing else
IsInteger(s) ==
  LET digits == IF s # <<>> /\ s[1] \in {"+", "-"} THEN Tail(s) ELSE s
  IN digits # <<>> /\ \A i \in 1..Len(digits) : IsDigit(digits[i])

\* the integer s is
IntegerOf(s) ==
  IF s[1] = "-" THEN 0 - ParseDigits(Tail(s), 10, 0)
  ELSE IF s[1] = "+" THEN ParseDigits(Tail(s), 10, 0)
  ELSE ParseDigits(s, 10, 0)

\* the first line of the block, trimmed
IndexLine(block) == Trim(SplitLines(block)[1])

\* C22: a block yields a cue only if its first line, trimmed, is a base-10
\* integer, and then the cue's index is that integer and is at least 1; a
\* block with any other first line is skipped with one 'Invalid index'
\* diagnostic and yields no cue.
C22_IndexIsPositiveInteger ==
  [][(pc = "loop" /\ blocks # <<>> /\ Len(SplitLines(Head(blocks))) >= 2)
       => /\ Len(cues') > Len(cues)
               => /\ IsInteger(IndexLine(Head(blocks)))
                  /\ cues'[Len(cues')].index = IntegerOf(IndexLine(Head(blocks)))
                  /\ cues'[Len(cues')].index >= 1
          /\ ~IsInteger(IndexLine(Head(blocks)))
               => /\ cues' = cues
                  /\ Len(errors') = Len(errors) + 1
                  /\ errors'[Len(errors')].prefix = "Invalid index: "]_vars

\* the text lines of the block that are not blank
TextLines(block) ==
  LET lines == SplitLines(block) IN SubSeq(lines, 3, Len(lines))

\* no text line of the block holds '<', '>' or '&'
IsPlainText(block) ==
  \A k \in 1..Len(TextLines(block)) :
    \A i \in 1..Len(TextLines(block)[k]) : TextLines(block)[k][i] \notin {"<", ">", "&"}

RECURSIVE Squeeze(_)
Squeeze(s) ==
  IF s = <<>> THEN <<>>
  ELSE IF s[1] = " "
  THEN LET n == CharRun(s, 1, " ")
       IN (IF n >= 3 THEN <<" ", " ">> ELSE SubSeq(s, 1, n))
            \o Squeeze(SubSeq(s, n + 1, Len(s)))
  ELSE <<s[1]>> \o Squeeze(Tail(s))

\* line k of the n text lines after the whitespace clean-up
CleanLine(line, k, n) ==
  LET spaced == [i \in 1..Len(line) |->
                   IF line[i] \in {"\t", "\f", "U+11"} THEN " " ELSE line[i]]
      squeezed == Squeeze(spaced)
      left == IF k = 1 THEN squeezed
              ELSE SubSeq(squeezed, 1 + CharRun(squeezed, 1, " "), Len(squeezed))
  IN IF k = n THEN left
     ELSE SubSeq(left, 1,
                 Len(left) - RunLenBack(left, Len(left),
                                        [i \in 1..Len(left) |-> left[i] = " "]))

----------------------------------------------------------------------------
(* Claims about the titles of buildFcpxml *)

\* buildFcpxml has returned the document
HasDocument == pc = "done" /\ result = Returned /\ fcpxml # <<>>

\* the cue's text after sanitizeXmlInput and stripHtmlTags
CleanText(cue) == stripHtmlTags(sanitizeXmlInput(cue.text).value)

\* t with its line breaks as spaces if it has at most 20 characters, else
\* its first 20 characters, line breaks as spaces, and '...'
Abbreviated(t) ==
  LET spaced == [i \in 1..Len(t) |-> IF t[i] = "\n" THEN " " ELSE t[i]]
  IN IF Len(t) <= 20 THEN spaced ELSE SubSeq(spaced, 1, 20) \o <<".", ".", ".">>

AmpersandsStartReferences(s) ==
  \A i \in 1..Len(s) :
    s[i] = "&" => \E reference \in References : MatchAt(s, i, reference)

\* C25: the name attribute of every title is a well-formed attribute value:
\* cutting the display name at 20 characters never cuts a reference in two,
\* so every '&' of the name begins a complete reference.
C25_NameKeepsReferencesWhole ==
  HasDocument
    => \A k \in 1..Len(fcpxml.spine) : AmpersandsStartReferences(fcpxml.spine[k].name)

\* what stands in xml between the opening tag of the text-style element that
\* refers to styleId and the next closing tag
TextStyleContent(xml, styleId) ==
  LET open == <<"<", "t", "e", "x", "t", "-", "s", "t", "y", "l", "e", " ",
                "r", "e", "f", "=", "\"">> \o styleId \o <<"\"", ">">>
      close == <<"<", "/", "t", "e", "x", "t", "-", "s", "t", "y", "l",
                 "e", ">">>
      i == CHOOSE i \in 1..Len(xml) :
             MatchAt(xml, i, open) /\ \A h \in 1..(i - 1) : ~MatchAt(xml, h, open)
      from == i + Len(open)
      j == CHOOSE j \in from..Len(xml) :
             MatchAt(xml, j, close) /\ \A h \in from..(j - 1) : ~MatchAt(xml, h, close)
  IN SubSeq(xml, from, j - 1)

\* C26: in the document buildFcpxml returns, the text-style element of every
\* title holds the escaped clean text of its cue, character for character,
\* line breaks included
C26_TextStyleHoldsEscapedText ==
  HasDocument
    => \A k \in 1..Len(fcpxml.spine) :
         TextStyleContent(fcpxml.spine[k].xml, fcpxml.spine[k].styleId)
           = escapeXmlContent(CleanText(cueList[k]))

\* the same for the cues whose text does not hold NEWLINE_PLACEHOLDER
C26_TextStyleHoldsOtherText ==
  HasDocument
    => \A k \in 1..Len(fcpxml.spine) :
         ~Contains(cueList[k].text, NEWLINE_PLACEHOLDER)
           => TextStyleContent(fcpxml.spine[k].xml, fcpxml.spine[k].styleId)
                = escapeXmlContent(CleanText(cueList[k]))

----------------------------------------------------------------------------
(* Claims about the frame counts of the titles *)

\* convertSrtToFcpxml returned a document
Converted == pc = "done" /\ result = Returned /\ Len(titles) = Len(cues)

\* the frame count a fraction `${frames}/${frameRate}s` begins with is 0
IsZeroFrames(f) == Head(f) = "0"

\* C27: in the document convertSrtToFcpxml returns, the title of every cue
\* that ends after it starts has a duration of at least one frame
C27_DurationAtLeastOneFrame ==
  Converted
    => \A k \in 1..Len(titles) :
         cues[k].endMs > cues[k].startMs => ~IsZeroFrames(titles[k].duration)

\* the same for the cues shown for 42 milliseconds or longer, a frame at 24
\* frames per second
C27_FrameLongCuesLast ==
  Converted
    => \A k \in 1..Len(titles) :
         cues[k].endMs - cues[k].startMs >= 42 => ~IsZeroFrames(titles[k].duration)

\* the frame count of a fraction `${frames}/${frameRate}s`
FrameCount(f) ==
  ParseDigits(SubSeq(f, 1, (CHOOSE i \in 1..Len(f) : f[i] = "/") - 1), 10, 0)

\* C28: in the document buildFcpxml returns, the offset frames and the
\* duration frames of every title together are at most the frames of the
\* sequence
C28_TitleFitsSequence ==
  HasDocument
    => \A k \in 1..Len(fcpxml.spine) :
         FrameCount(fcpxml.spine[k].offset) + FrameCount(fcpxml.spine[k].duration)
           <= FrameCount(fcpxml.duration)

----------------------------------------------------------------------------
(* Claims about buildFcpxmlFromTemplate *)

\* template with every token of placeholders replaced by its value as it is,
\* in one pass from left to right; placeholders is a sequence of
\* [token, value] whose tokens are different
Substituted(template, placeholders) ==
  LET At(i) == {k \in 1..Len(placeholders) : MatchAt(template, i, placeholders[k].token)}
  IN ReplaceAll(template,
                [i \in 1..Len(template) |->
                   IF At(i) = {} THEN 0
                   ELSE Len(placeholders[CHOOSE k \in At(i) : TRUE].token)],
                [i \in 1..Len(template) |->
                   IF At(i) = {} THEN <<>>
                   ELSE placeholders[CHOOSE k \in At(i) : TRUE].value])

\* the placeholders of the title template and the values of a title
TitlePlaceholders(title) ==
  <<[token |-> OFFSET, value |-> title.offset],
    [token |-> START, value |-> title.start],
    [token |-> DURATION, value |-> title.duration],
    [token |-> DISPLAY_NAME, value |-> title.name],
    [token |-> STYLE_ID, value |-> title.styleId],
    [token |-> TEXT, value |-> title.text]>>

\* the placeholders of the base template, the titles joined by '\n'
BasePlaceholders(totalDuration, titleList) ==
  <<[token |-> SEQUENCE_DURATION, value |-> totalDuration],
    [token |-> TITLES,
     value |-> Join([k \in 1..Len(titleList) |-> titleList[k].xml], <<"\n">>)]>>

\* buildFcpxmlFromTemplate returned a document
HasFilledDocument == pc = "done" /\ result = Returned /\ templates # <<>>

\* C29: in what buildFcpxmlFromTemplate returns, every title is the title
\* template with each placeholder replaced by its value as it is, and the
\* document is the base template with the duration and the titles put in as
\* they are: a token or a '$' inside a value stays as it is
C29_PlaceholdersReplacedLiterally ==
  HasFilledDocument
    => /\ \A k \in 1..Len(titles) :
            titles[k].xml = Substituted(templates.titleTemplate,
                                        TitlePlaceholders(titles[k]))
       /\ fcpxml = Substituted(templates.baseTemplate, BasePlaceholders(fraction, titles))

\* the same for the cue lists whose texts hold neither '$' nor '{'
C29_PlainValuesReplaced ==
  (HasFilledDocument
     /\ \A k \in 1..Len(cueList) : \A i \in 1..Len(cueList[k].text) :
          cueList[k].text[i] \notin {"$", "{"})
    => /\ \A k \in 1..Len(titles) :
            titles[k].xml = Substituted(templates.titleTemplate,
                                        TitlePlaceholders(titles[k]))
       /\ fcpxml = Substituted(templates.baseTemplate, BasePlaceholders(fraction, titles))

----------------------------------------------------------------------------
(* Claims about the order of the steps of processCliCommand *)

\* the file at the output path holds the converted document
OutputWritten ==
  \E i \in 1..Len(files) : files[i] = File(resolve(OutputFile), "fcpxml", fcpxml)

\* the call has returned
CliReturned == pc = "done"

\* what holds of every step of the call
InOrder ==
  /\ source' # source => pc = "read" /\ pc' = "merge"
  /\ pc' = "convert" => pc = "merge"
  /\ pc' = "write" => pc = "convert" /\ fcpxml' # <<>>
  /\ fcpxml' # fcpxml => pc = "convert" /\ pc' = "write" /\ source # <<>>
  /\ files' # files => pc = "write" /\ pc' = "written" /\ fcpxml # <<>>
  /\ pc = "written" => pc' = "done" /\ cliResult'.success
  /\ pc' = "catch" => /\ pc \in {"read", "convert", "write"}
                      /\ result'.kind = "thrown"
                      /\ UNCHANGED <<files, fcpxml, source>>
  /\ pc = "catch" => /\ pc' = "done"
                     /\ ~cliResult'.success
                     /\ cliResult'.error = errorMessage(result)
                     /\ UNCHANGED <<files, fcpxml, source>>
  /\ pc' # "done" => UNCHANGED cliResult

C30_WitnessWriteFailed ==
  CliReturned /\ ~cliResult.success /\ fcpxml # <<>> /\ ~CanWrite(resolve(OutputFile))
====
